---- MODULE Spec2Model ----
(***************************************************************************)
(* Orchestration core of agent-infrastructure-platform:                    *)
(*   orchestration/circuit_breaker.py  CircuitBreaker                      *)
(*   orchestration/orchestrator.py     Orchestrator                        *)
(*   orchestration/swarm.py            SwarmCoordinator                    *)
(* SpecCB drives one CircuitBreaker directly; Spec drives an Orchestrator  *)
(* with its registry, breakers, semaphore and concurrent execute() calls;  *)
(* SpecFind calls find_agents_for_task directly on such an Orchestrator.   *)
(* SpecJoin, SpecVote and SpecAlloc drive a SwarmCoordinator: membership   *)
(* with callbacks, one voting round, and task allocation.                  *)
(* FairSpec, HangSpec, SpecTry and SpecCancel follow one execute() call:   *)
(* with every agent call ending, with plain callables that may hang, with  *)
(* a breaker on its last probe, and with cancel_task called under it.      *)
(* SpecLate is Spec with the shared agent a2 one failure short of opening. *)
(*   governance/killswitch.py          KillSwitch   (SpecKill)             *)
(*   governance/audit.py               AuditLogger  (SpecAudit)            *)
(***************************************************************************)
EXTENDS Integers, Sequences, FiniteSets, TLC

\* ------------------------------------------------------------------ bounds
MaxTime == 4          \* SpecCB: the clock runs over 0..MaxTime
MaxCount == 4         \* SpecCB: record_failure is not called past this failure_count
MaxParam == 2         \* SpecCB: constructor arguments range over 1..MaxParam
MaxConcurrent == 2    \* Spec: max_concurrent_tasks ranges over 1..MaxConcurrent
MaxEnvSteps == 2      \* Spec: clock advances and register/unregister calls during a run
MaxAgents == 3        \* swarm: config.max_agents ranges over 1..MaxAgents
MaxCallbacks == 1     \* swarm: callbacks registered with on_join, and with on_leave
MaxVotes == 2         \* swarm: votes accepted on one proposal
MaxSwarmTicks == 2    \* swarm: advances of the event loop's clock
MaxDistribute == 4    \* swarm: distribute_task calls made
MaxEvents == 2        \* kill switch: activate calls made
MaxLogged == 3        \* audit: log calls made
MaxAuditTime == 2     \* audit: advances of the clock behind datetime.utcnow()

\* ------------------------------------------------------- program constants
DefaultFailureThreshold == 5
DefaultRecoveryTimeout == 30
DefaultHalfOpenMaxCalls == 3
DefaultSuccessThreshold == 2
NoTime == -1          \* _last_failure_time = None
DefaultVoteTimeout == 30

VARIABLES
  now,        \* time.time()
  cb,         \* SpecCB: the CircuitBreaker under test
  cbOp,       \* SpecCB: the last call made on cb: its name, return value, time
  cbPrev,     \* SpecCB: cb as it was before that call
  cbStreak,   \* SpecCB: record_failure calls since cb was last CLOSED with failure_count 0
  cbWiped,    \* SpecCB: some record_success in CLOSED has reset a failure_count > 0
  cbEpisode,  \* SpecCB: calls counted since cb last entered HALF_OPEN; time it last re-opened
  max_concurrent_tasks,    \* Orchestrator.max_concurrent_tasks
  enable_circuit_breaker,  \* Orchestrator.enable_circuit_breaker
  agent_order,             \* key order of _agents / _agent_capabilities (registration order)
  agents,                  \* _agents: agent id -> how the agent object is invoked
  agent_capabilities,      \* _agent_capabilities: agent id -> capability names
  agent_health,            \* _agent_health: agent id -> bool
  circuit_breakers,        \* _circuit_breakers: agent id -> CircuitBreaker
  cb_ident,                \* identity of the CircuitBreaker object held for each agent id
  env_steps,               \* clock advances and register/unregister calls made so far
  semaphore,               \* _semaphore: its free slots
  active_tasks,            \* _active_tasks: the task ids tracked as active
  exec,                    \* per execute() call: its plan and local variables
  tk,                      \* per task of an execute() call: its _execute_task coroutine
  hist,                    \* per task: agents invoked, breakers recorded on, round of dispatch
  last_find,               \* SpecFind: the latest direct find_agents_for_task call
  prev_find,               \* SpecFind: the direct find_agents_for_task call before that one
  config,                  \* SwarmCoordinator.config
  members,                 \* _members: agent id -> capabilities, task_count
  member_order,            \* key order of _members (join order)
  on_join,                 \* _on_join: the number of callbacks registered
  on_leave,                \* _on_leave: the number of callbacks registered
  pending,                 \* join/leave coroutines suspended in a callback
  active_proposals,        \* _active_proposals: proposal id -> started_at, and the sleep's length
  votes,                   \* _votes: proposal id -> list of SwarmVote
  next_proposal,           \* the number of the next propose() call
  proposal_results,        \* proposal id -> the dict its propose() call returned
  vote_log,                \* proposal id -> every vote a vote() call accepted
  allocated_tasks,         \* _allocated_tasks: task id -> agent id
  round_robin_index,       \* _round_robin_index
  dist_log,                \* the distribute_task calls made: membership seen, values returned
  sw_op,                   \* the last SwarmCoordinator call: name, arguments, return value
  task_status,             \* Task.status of the tasks of each execute() call's plan
  cancel_op,               \* the last cancel_task call: task, status found, return value
  killed_agents,           \* KillSwitch._killed_agents
  killed_swarms,           \* KillSwitch._killed_swarms
  killed_namespaces,       \* KillSwitch._killed_namespaces
  global_kill,             \* KillSwitch._global_kill
  monitored,               \* KillSwitch._monitored: the agent ids with a monitored task
  agent_metadata,          \* KillSwitch._agent_metadata: agent id -> namespace, swarm
  events,                  \* KillSwitch._events: level and target of every activation
  agent_kills,             \* agent ids given to activate(AGENT, id) and not since to deactivate(AGENT, id)
  storage,                 \* AuditLogger.storage: the list of AuditEvent
  last_hash,               \* AuditLogger._last_hash
  event_count              \* AuditLogger._event_count

cbVars == <<cb, cbOp, cbPrev, cbStreak, cbWiped, cbEpisode>>
cfgVars == <<max_concurrent_tasks, enable_circuit_breaker>>
regVars == <<agent_order, agents, agent_capabilities, agent_health, cb_ident, env_steps>>
runVars == <<circuit_breakers, semaphore, active_tasks, exec, tk, hist>>
findVars == <<last_find, prev_find>>
orchVars == <<cfgVars, regVars, runVars, findVars>>
swarmVars == <<config, members, member_order, on_join, on_leave, pending,
               active_proposals, votes, next_proposal, proposal_results, vote_log,
               allocated_tasks, round_robin_index, dist_log, sw_op>>
cancelVars == <<task_status, cancel_op>>
ksVars == <<killed_agents, killed_swarms, killed_namespaces, global_kill, monitored,
            agent_metadata, events, agent_kills>>
auditVars == <<storage, last_hash, event_count>>
govVars == <<ksVars, auditVars>>
vars == <<now, cbVars, orchVars, swarmVars, cancelVars, govVars>>

\* the SwarmCoordinator variables of a run that has no SwarmCoordinator
NoSwarm ==
  /\ config = <<>> /\ members = <<>> /\ member_order = <<>>
  /\ on_join = 0 /\ on_leave = 0 /\ pending = {}
  /\ active_proposals = <<>> /\ votes = <<>> /\ next_proposal = 1
  /\ proposal_results = <<>> /\ vote_log = <<>>
  /\ allocated_tasks = <<>> /\ round_robin_index = 0 /\ dist_log = <<>>
  /\ sw_op = <<>>

\* the task variables of a run that has no Orchestrator
NoTasks == task_status = <<>> /\ cancel_op = <<>>

\* KillSwitch.__init__
NewKillSwitch ==
  /\ killed_agents = {} /\ killed_swarms = {} /\ killed_namespaces = {}
  /\ global_kill = FALSE
  /\ monitored = {} /\ agent_metadata = <<>>
  /\ events = <<>>
  /\ agent_kills = {}

\* the None of previous_hash and _last_hash (a hash is modelled as a tuple)
NoHash == <<>>

\* AuditLogger.__init__ with the default storage_backend
NewAuditLogger == storage = <<>> /\ last_hash = NoHash /\ event_count = 0

\* a KillSwitch and an AuditLogger that nothing calls
NoGovernance == NewKillSwitch /\ NewAuditLogger

\* ------------------------------------------------------------ CircuitBreaker
\* CircuitBreaker.__init__
NewCircuitBreaker(ft, rt, hmax, st) ==
  [ failure_threshold |-> ft, recovery_timeout |-> rt,
    half_open_max_calls |-> hmax, success_threshold |-> st,
    state |-> "CLOSED", failure_count |-> 0, success_count |-> 0,
    last_failure_time |-> NoTime, half_open_calls |-> 0 ]

\* the elapsed-time test of can_execute, with > for >=
RecoveryElapsedStrict(b, t) ==
  /\ b.last_failure_time # NoTime
  /\ t - b.last_failure_time > b.recovery_timeout

\* can_execute, OPEN branch: has the recovery timeout passed at time t
RecoveryElapsed(b, t) ==
  /\ b.last_failure_time # NoTime
  /\ t - b.last_failure_time >= b.recovery_timeout

\* can_execute with the HALF_OPEN test <= for <
can_execute_one_more(b, t) ==
  IF b.state = "CLOSED" THEN [cb |-> b, ret |-> TRUE]
  ELSE IF b.state = "OPEN" THEN
    IF RecoveryElapsed(b, t)
    THEN [cb |-> [b EXCEPT !.state = "HALF_OPEN", !.half_open_calls = 0], ret |-> TRUE]
    ELSE [cb |-> b, ret |-> FALSE]
  ELSE
    IF b.half_open_calls <= b.half_open_max_calls
    THEN [cb |-> [b EXCEPT !.half_open_calls = @ + 1], ret |-> TRUE]
    ELSE [cb |-> b, ret |-> FALSE]

\* CircuitBreaker.can_execute at time t: the breaker afterwards and the value returned
can_execute(b, t) ==
  IF b.state = "CLOSED" THEN [cb |-> b, ret |-> TRUE]
  ELSE IF b.state = "OPEN" THEN
    IF RecoveryElapsed(b, t)
    THEN [cb |-> [b EXCEPT !.state = "HALF_OPEN", !.half_open_calls = 0], ret |-> TRUE]
    ELSE [cb |-> b, ret |-> FALSE]
  ELSE \* HALF_OPEN
    IF b.half_open_calls < b.half_open_max_calls
    THEN [cb |-> [b EXCEPT !.half_open_calls = @ + 1], ret |-> TRUE]
    ELSE [cb |-> b, ret |-> FALSE]

\* record_success with the threshold test > for >=
record_success_late(b) ==
  IF b.state = "HALF_OPEN" THEN
    IF b.success_count + 1 > b.success_threshold
    THEN [b EXCEPT !.state = "CLOSED", !.failure_count = 0,
                   !.success_count = 0, !.half_open_calls = 0]
    ELSE [b EXCEPT !.success_count = @ + 1]
  ELSE IF b.state = "CLOSED" THEN
    IF b.failure_count > 0 THEN [b EXCEPT !.failure_count = 0] ELSE b
  ELSE b

\* CircuitBreaker.record_success
record_success(b) ==
  IF b.state = "HALF_OPEN" THEN
    IF b.success_count + 1 >= b.success_threshold
    THEN [b EXCEPT !.state = "CLOSED", !.failure_count = 0,
                   !.success_count = 0, !.half_open_calls = 0]
    ELSE [b EXCEPT !.success_count = @ + 1]
  ELSE IF b.state = "CLOSED" THEN
    IF b.failure_count > 0 THEN [b EXCEPT !.failure_count = 0] ELSE b
  ELSE b

\* record_failure with the threshold test > for >=
record_failure_late(b, t) ==
  LET c == [b EXCEPT !.failure_count = @ + 1, !.last_failure_time = t] IN
  IF c.state = "HALF_OPEN"
  THEN [c EXCEPT !.state = "OPEN", !.half_open_calls = 0, !.success_count = 0]
  ELSE IF c.state = "CLOSED" /\ c.failure_count > c.failure_threshold
  THEN [c EXCEPT !.state = "OPEN"]
  ELSE c

\* record_failure that keeps success_count when it leaves HALF_OPEN
record_failure_keeps_successes(b, t) ==
  LET c == [b EXCEPT !.failure_count = @ + 1, !.last_failure_time = t] IN
  IF c.state = "HALF_OPEN"
  THEN [c EXCEPT !.state = "OPEN", !.half_open_calls = 0]
  ELSE IF c.state = "CLOSED" /\ c.failure_count >= c.failure_threshold
  THEN [c EXCEPT !.state = "OPEN"]
  ELSE c

\* CircuitBreaker.record_failure at time t
record_failure(b, t) ==
  LET c == [b EXCEPT !.failure_count = @ + 1, !.last_failure_time = t] IN
  IF c.state = "HALF_OPEN"
  THEN [c EXCEPT !.state = "OPEN", !.half_open_calls = 0, !.success_count = 0]
  ELSE IF c.state = "CLOSED" /\ c.failure_count >= c.failure_threshold
  THEN [c EXCEPT !.state = "OPEN"]
  ELSE c

\* -------------------------------------------- SpecCB: one breaker, any caller
NoOp == [name |-> "none", ret |-> FALSE, at |-> 0]
NoEpisode == [succ |-> 0, admitted |-> 0, reopened |-> NoTime]

CBInit ==
  /\ now = 0
  /\ \E ft \in 1..MaxParam, rt \in 1..MaxParam, hmax \in 1..MaxParam, st \in 1..MaxParam :
       cb = NewCircuitBreaker(ft, rt, hmax, st)
  /\ cbOp = NoOp
  /\ cbPrev = cb
  /\ cbStreak = 0
  /\ cbWiped = FALSE
  /\ cbEpisode = NoEpisode
  /\ max_concurrent_tasks = 1 /\ enable_circuit_breaker = TRUE
  /\ agent_order = <<>> /\ agents = <<>> /\ agent_capabilities = <<>>
  /\ agent_health = <<>> /\ circuit_breakers = <<>> /\ cb_ident = <<>>
  /\ env_steps = 0 /\ semaphore = 1 /\ active_tasks = {}
  /\ exec = <<>> /\ tk = <<>> /\ hist = <<>>
  /\ last_find = <<>> /\ prev_find = <<>>
  /\ NoSwarm /\ NoTasks /\ NoGovernance

\* a caller evaluates cb.can_execute()
CBCanExecute ==
  /\ cb' = can_execute(cb, now).cb
  /\ cbOp' = [name |-> "can_execute", ret |-> can_execute(cb, now).ret, at |-> now]
  /\ cbPrev' = cb
  /\ cbEpisode' =
       IF cb.state = "OPEN" /\ cb'.state = "HALF_OPEN"
       THEN [cbEpisode EXCEPT !.succ = 0, !.admitted = 1]
       ELSE IF cb.state = "HALF_OPEN" /\ can_execute(cb, now).ret
       THEN [cbEpisode EXCEPT !.admitted = @ + 1]
       ELSE cbEpisode
  /\ UNCHANGED <<now, cbStreak, cbWiped, orchVars, swarmVars, cancelVars, govVars>>

\* a caller evaluates cb.record_success()
CBRecordSuccess ==
  /\ cb' = record_success(cb)
  /\ cbOp' = [name |-> "record_success", ret |-> FALSE, at |-> now]
  /\ cbPrev' = cb
  /\ cbStreak' = IF cb'.state = "CLOSED" THEN 0 ELSE cbStreak
  /\ cbWiped' = (cbWiped \/ (cb.state = "CLOSED" /\ cb.failure_count > 0))
  /\ cbEpisode' = IF cb.state = "HALF_OPEN"
                  THEN [cbEpisode EXCEPT !.succ = @ + 1] ELSE cbEpisode
  /\ UNCHANGED <<now, orchVars, swarmVars, cancelVars, govVars>>

\* a caller evaluates cb.record_failure()
CBRecordFailure ==
  /\ cb.failure_count < MaxCount
  /\ cb' = record_failure(cb, now)
  /\ cbOp' = [name |-> "record_failure", ret |-> FALSE, at |-> now]
  /\ cbPrev' = cb
  /\ cbStreak' = cbStreak + 1
  /\ cbEpisode' = IF cb.state = "HALF_OPEN"
                  THEN [cbEpisode EXCEPT !.reopened = now] ELSE cbEpisode
  /\ UNCHANGED <<now, cbWiped, orchVars, swarmVars, cancelVars, govVars>>

\* time.time() advances
CBTick ==
  /\ now < MaxTime
  /\ now' = now + 1
  /\ UNCHANGED <<cbVars, orchVars, swarmVars, cancelVars, govVars>>

CBNext == CBCanExecute \/ CBRecordSuccess \/ CBRecordFailure \/ CBTick

SpecCB == CBInit /\ [][CBNext]_vars

\* ------------------------------------------------------------ Orchestrator
Agents == {"a1", "a2"}
Churn == {"a2"}          \* the agents unregistered and registered again during a run
Execs == {1, 2}
Missing == "missing"     \* a dependency id that names no task of the plan

\* dict helpers
Put(f, k, v) == [x \in DOMAIN f \cup {k} |-> IF x = k THEN v ELSE f[x]]
Remove(f, k) == [x \in DOMAIN f \ {k} |-> f[x]]
SeqToSet(s) == {s[i] : i \in 1..Len(s)}
Min(a, b) == IF a < b THEN a ELSE b

\* TaskPlan inputs: tasks in plan order, dependencies: task id -> prerequisite ids
PlanLinear == [tasks |-> <<"A", "B", "C">>, dependencies |-> ("B" :> {"A"}) @@ ("C" :> {"B"})]
PlanFork   == [tasks |-> <<"A", "B", "C">>, dependencies |-> ("C" :> {"A"})]
PlanCycle  == [tasks |-> <<"A", "B", "C">>,
               dependencies |-> ("A" :> {"B"}) @@ ("B" :> {"A"}) @@ ("C" :> {Missing})]
PlanDangling == [tasks |-> <<"A", "B", "C">>, dependencies |-> ("B" :> {Missing}) @@ ("C" :> {"B"})]
PlanOne    == [tasks |-> <<"C">>, dependencies |-> <<>>]

\* the plans handed to the first and to a concurrent second execute() call
Plans(e) ==
  IF e = 1 THEN {PlanLinear, PlanFork, PlanCycle, PlanDangling} ELSE {PlanOne}

\* Task.required_capabilities of the tasks of these plans
RequiredCaps(t) == IF t = "C" THEN {"y"} ELSE {"x"}

\* plan.dependencies.get(task.id, [])
Deps(p, t) == IF t \in DOMAIN p.dependencies THEN p.dependencies[t] ELSE {}

\* ExecutionResult, and an exception object as asyncio.gather hands it back
ExecutionResult(ok, err, retries) ==
  [success |-> ok, error |-> err, retry_count |-> retries, exception |-> FALSE]
ExceptionObject(err) ==
  [success |-> FALSE, error |-> err, retry_count |-> 0, exception |-> TRUE]

\* the _execute_task coroutine of a task that has not been created
NoCoroutine ==
  [pc |-> "none", candidates |-> <<>>, idx |-> 0, agent |-> "", kind |-> "",
   cb |-> 0, res |-> ExecutionResult(FALSE, "", 0)]
\* admitted: the time line 338 let the call in flight through, NoTime with none in flight
NoHistory ==
  [invoked |-> {}, recorded |-> {}, blocked |-> {}, closed |-> {}, round |-> 0,
   admitted |-> NoTime]

\* find_agents_for_task without the circuit-breaker test
breaker_admits_all(brk, a, t) == TRUE

\* find_agents_for_task lines 164-167: does the agent's breaker let it through
breaker_admits(brk, a, t) ==
  ~(enable_circuit_breaker /\ a \in DOMAIN brk /\ ~can_execute(brk[a], t).ret)

\* the breakers after cb.can_execute() was evaluated on agent a's breaker
after_can_execute(brk, a, t) ==
  IF a \in DOMAIN brk THEN [brk EXCEPT ![a] = can_execute(brk[a], t).cb] ELSE brk

RECURSIVE find_agents_prepending(_, _, _, _)
\* the loop of find_agents_for_task with candidates.insert(0, agent_id) for append
find_agents_prepending(i, req, brk, acc) ==
  IF i > Len(agent_order) THEN [candidates |-> acc, breakers |-> brk]
  ELSE LET a == agent_order[i] IN
    IF ~(req \subseteq agent_capabilities[a]) THEN find_agents_prepending(i + 1, req, brk, acc)
    ELSE IF ~agent_health[a] THEN find_agents_prepending(i + 1, req, brk, acc)
    ELSE LET brk1 == IF enable_circuit_breaker THEN after_can_execute(brk, a, now) ELSE brk
         IN IF ~breaker_admits(brk, a, now)
            THEN find_agents_prepending(i + 1, req, brk1, acc)
            ELSE find_agents_prepending(i + 1, req, brk1, <<a>> \o acc)

RECURSIVE find_agents_from(_, _, _, _)
\* find_agents_for_task, the loop from the i-th registered agent on
find_agents_from(i, req, brk, acc) ==
  IF i > Len(agent_order) THEN [candidates |-> acc, breakers |-> brk]
  ELSE LET a == agent_order[i] IN
    IF ~(req \subseteq agent_capabilities[a]) THEN find_agents_from(i + 1, req, brk, acc)
    ELSE IF ~agent_health[a] THEN find_agents_from(i + 1, req, brk, acc)
    ELSE LET brk1 == IF enable_circuit_breaker THEN after_can_execute(brk, a, now) ELSE brk
         IN IF ~breaker_admits(brk, a, now)
            THEN find_agents_from(i + 1, req, brk1, acc)
            ELSE find_agents_from(i + 1, req, brk1, Append(acc, a))

\* Orchestrator.find_agents_for_task: the candidates and the breakers afterwards
find_agents_for_task(req, brk) == find_agents_from(1, req, brk, <<>>)

\* no direct find_agents_for_task call made yet
NoFind == [req |-> {}, ret |-> <<>>, before |-> <<>>, after |-> <<>>, steps |-> -1]

\* agents a find_agents_for_task call passes over because their breaker is OPEN
\* with the recovery timeout not elapsed
OpenBlocked(req, brk) ==
  {a \in DOMAIN brk : /\ a \in DOMAIN agent_capabilities
                      /\ req \subseteq agent_capabilities[a]
                      /\ brk[a].state = "OPEN"
                      /\ ~RecoveryElapsed(brk[a], now)}

\* agents a find_agents_for_task call meets with the capabilities, healthy, and
\* with no breaker or a CLOSED one
ClosedCapable(req, brk) ==
  {a \in DOMAIN agent_capabilities :
     /\ req \subseteq agent_capabilities[a]
     /\ agent_health[a]
     /\ (a \in DOMAIN brk => brk[a].state = "CLOSED")}

\* the candidate loop passing over its next candidate without looking at it
try_agents_skipping_one(cands, i, brk) ==
  IF i + 1 > Len(cands) THEN [kind |-> "all_failed", idx |-> i + 1, breakers |-> brk]
  ELSE IF cands[i + 1] \notin DOMAIN agents
    THEN [kind |-> "key_error", idx |-> i + 1, breakers |-> brk]
    ELSE [kind |-> "call", idx |-> i + 1, breakers |-> brk]

RECURSIVE try_agents(_, _, _)
\* _execute_task lines 332-393: the candidate loop from the i-th candidate on, up
\* to the next agent call ("call"), the end of the list ("all_failed") or the
\* KeyError of self._agents[agent_id] for an agent unregistered meanwhile
try_agents(cands, i, brk) ==
  IF i > Len(cands) THEN [kind |-> "all_failed", idx |-> i, breakers |-> brk]
  ELSE LET a == cands[i] IN
    IF a \notin DOMAIN agents THEN [kind |-> "key_error", idx |-> i, breakers |-> brk]
    ELSE IF a \in DOMAIN brk /\ ~can_execute(brk[a], now).ret
      THEN try_agents(cands, i + 1, after_can_execute(brk, a, now))
      ELSE [kind |-> "call", idx |-> i, breakers |-> after_can_execute(brk, a, now)]

\* the coroutine, its history and the shared state after the candidate loop ran
\* from candidate i on: suspended in an agent call, or returned (slot released)
run_candidates(c, h, t, i, brk, act, sem) ==
  LET r == try_agents(c.candidates, i, brk) IN
  IF r.kind = "call" THEN
    LET a == c.candidates[r.idx] IN
    [tk |-> [c EXCEPT !.pc = "calling", !.idx = r.idx, !.agent = a, !.kind = agents[a],
                      !.cb = IF a \in DOMAIN brk THEN cb_ident[a] ELSE 0],
     hist |-> [h EXCEPT !.invoked = @ \cup {a}, !.admitted = now],
     breakers |-> r.breakers, active |-> act \cup {t}, sem |-> sem]
  ELSE IF r.kind = "all_failed" THEN
    [tk |-> [c EXCEPT !.pc = "done", !.idx = r.idx,
                      !.res = ExecutionResult(FALSE, "All agents failed to execute task",
                                              Len(c.candidates))],
     hist |-> [h EXCEPT !.admitted = NoTime], breakers |-> r.breakers, active |-> act, sem |-> sem + 1]
  ELSE
    [tk |-> [c EXCEPT !.pc = "done", !.idx = r.idx, !.res = ExceptionObject("KeyError")],
     hist |-> [h EXCEPT !.admitted = NoTime], breakers |-> r.breakers, active |-> act, sem |-> sem + 1]

\* _execute_task from the acquired semaphore to its first suspension or return
run_task(c, h, e, t, brk, act, sem) ==
  LET f == find_agents_for_task(RequiredCaps(t), brk)
      h1 == [h EXCEPT !.blocked = OpenBlocked(RequiredCaps(t), brk),
                      !.closed = ClosedCapable(RequiredCaps(t), brk)]
  IN IF f.candidates = <<>> THEN
       [tk |-> [c EXCEPT !.pc = "done",
                         !.res = ExecutionResult(FALSE, "No agent found for capabilities", 0)],
        hist |-> h1, breakers |-> f.breakers, active |-> act, sem |-> sem + 1]
     ELSE run_candidates([c EXCEPT !.candidates = f.candidates], h1, <<e, t>>, 1,
                         f.breakers, act, sem)

\* execute line 279-284 without the isinstance(result, Exception) conversion
as_result_unconverted(raw) == raw

\* execute lines 279-284: an exception handed back by gather becomes a failure result
as_result(raw) ==
  IF raw.exception THEN ExecutionResult(FALSE, raw.error, 0) ELSE raw

\* execute lines 297-300: task t has a result, so it leaves the pending
\* dependencies of every task that depends on it
unlock_dependents(p, pd, t) ==
  [d \in DOMAIN pd |-> IF t \in Deps(p, d) THEN pd[d] \ {t} ELSE pd[d]]

\* line 286 reached for successful results only
store_result_if_success(results, t, result) ==
  IF result.success THEN Put(results, t, result) ELSE results

\* execute line 286: results[task.id] = result
store_result(results, t, result) == Put(results, t, result)

RECURSIVE process_results(_, _, _, _)
\* execute lines 278-300: the loop over zip(tasks_to_run, task_results) from the
\* i-th pair on; raised: result.success was read off an exception object
process_results(x, raws, i, raised) ==
  IF raised \/ i > Len(x.tasks_to_run) THEN [exec |-> x, raised |-> raised]
  ELSE LET t == x.tasks_to_run[i]
           result == as_result(raws[t])
           x1 == [x EXCEPT !.results = store_result(@, t, result)]
       IN IF result.exception THEN process_results(x1, raws, i + 1, TRUE)
          ELSE process_results(
                 [x1 EXCEPT !.completed = IF result.success THEN @ \cup {t} ELSE @,
                            !.failed = IF result.success THEN @ ELSE @ \cup {t},
                            !.pending_deps = unlock_dependents(x.plan, @, t)],
                 raws, i + 1, FALSE)

\* the ready test of execute with the completed/failed conditions left out
is_ready_again(x, t) ==
  (IF t \in DOMAIN x.pending_deps THEN x.pending_deps[t] ELSE {}) = {}

\* the ready test of execute with the pending-dependency condition left out
is_ready_ignoring_deps(x, t) == t \notin x.completed /\ t \notin x.failed

\* execute lines 249-253: is task t ready to execute
is_ready(x, t) ==
  /\ t \notin x.completed
  /\ t \notin x.failed
  /\ (IF t \in DOMAIN x.pending_deps THEN x.pending_deps[t] ELSE {}) = {}

\* execute lines 249-253: the ready tasks in plan order
ready(x) == SelectSeq(x.plan.tasks, LAMBDA t : is_ready(x, t))

\* the deadlock branch of execute that fails nothing and just leaves the loop
deadlock_results_dropped(x) == [x EXCEPT !.status = "returned", !.tasks_to_run = <<>>]

\* execute lines 255-270: no task is ready: every remaining task fails with
\* "Dependency deadlock" and the loop is left
deadlock_results(x) ==
  LET remaining == {t \in SeqToSet(x.plan.tasks) : t \notin x.completed /\ t \notin x.failed}
  IN [x EXCEPT !.failed = @ \cup remaining,
               !.results = [t \in DOMAIN @ \cup remaining |->
                              IF t \in remaining
                              THEN ExecutionResult(FALSE, "Dependency deadlock", 0)
                              ELSE @[t]],
               !.status = "returned", !.tasks_to_run = <<>>]

\* the batch of execute without the max_concurrent_tasks slice
batch_uncapped(rdy) == rdy

\* execute line 273: ready[:self.max_concurrent_tasks]
batch(rdy) == SubSeq(rdy, 1, Min(Len(rdy), max_concurrent_tasks))

\* execute lines 247-275 and 302-309: the head of the while loop: return, fail the
\* remaining tasks on a deadlock, or gather the next batch
loop_head(x) ==
  IF Cardinality(x.completed) + Cardinality(x.failed) < Len(x.plan.tasks) THEN
    IF ready(x) = <<>> THEN deadlock_results(x)
    ELSE [x EXCEPT !.tasks_to_run = batch(ready(x)), !.round = @ + 1]
  ELSE [x EXCEPT !.status = "returned", !.tasks_to_run = <<>>]

\* an execute() call that has not been made
IdleExec ==
  [status |-> "idle", plan |-> [tasks |-> <<>>, dependencies |-> <<>>],
   results |-> <<>>, completed |-> {}, failed |-> {}, pending_deps |-> <<>>,
   tasks_to_run |-> <<>>, round |-> 0]

TaskIds == {"A", "B", "C"}

\* TaskStatus values a task ends in
Terminal == {"COMPLETED", "FAILED", "CANCELLED"}

\* no cancel_task call made yet
NoCancel == [task |-> "", found |-> "", ret |-> FALSE]

\* the coroutines gather creates for the batch of x (line 274-275)
create_coroutines(tks, x) ==
  [t \in TaskIds |-> IF x.status = "running" /\ t \in SeqToSet(x.tasks_to_run)
                     THEN [NoCoroutine EXCEPT !.pc = "created"] ELSE tks[t]]
stamp_round(hs, x) ==
  [t \in TaskIds |-> IF x.status = "running" /\ t \in SeqToSet(x.tasks_to_run)
                     THEN [hs[t] EXCEPT !.round = x.round] ELSE hs[t]]

\* register_agent line 125: CircuitBreaker()
FreshBreaker ==
  NewCircuitBreaker(DefaultFailureThreshold, DefaultRecoveryTimeout,
                    DefaultHalfOpenMaxCalls, DefaultSuccessThreshold)

\* the two agents registered: a1 has an execute_task method, a2 is a plain callable
AgentKind(a) == IF a = "a1" THEN "execute_task" ELSE "callable"
AgentCaps(a) == IF a = "a1" THEN {"x"} ELSE {"x", "y"}

\* breakers an Orchestrator that has run earlier plans can hold for an agent
InitBreakers ==
  LET fresh == FreshBreaker
      tripped == [fresh EXCEPT !.failure_count = DefaultFailureThreshold]
  IN { fresh,
       [fresh EXCEPT !.failure_count = DefaultFailureThreshold - 1,
                     !.last_failure_time = 0],
       [tripped EXCEPT !.state = "OPEN", !.last_failure_time = DefaultRecoveryTimeout] }

TickLen == DefaultRecoveryTimeout

\* Orchestrator.__init__, two register_agent calls, and breakers left by earlier
\* runs (a1's drawn from brks1, a2's from brks2); steps: the clock advances and
\* registry calls counted as already made
InitOn(steps, brks1, brks2) ==
  /\ now = DefaultRecoveryTimeout
  /\ cb = NewCircuitBreaker(1, 1, 1, 1) /\ cbOp = NoOp /\ cbPrev = cb
  /\ cbStreak = 0 /\ cbWiped = FALSE /\ cbEpisode = NoEpisode
  /\ max_concurrent_tasks \in 1..MaxConcurrent
  /\ enable_circuit_breaker \in BOOLEAN
  /\ agent_order = <<"a1", "a2">>
  /\ agents = [a \in Agents |-> AgentKind(a)]
  /\ agent_capabilities = [a \in Agents |-> AgentCaps(a)]
  /\ agent_health = ("a1" :> TRUE) @@ ("a2" :> TRUE)
  /\ IF enable_circuit_breaker
     THEN /\ \E b1 \in brks1, b2 \in brks2 :
               circuit_breakers = ("a1" :> b1) @@ ("a2" :> b2)
          /\ cb_ident = ("a1" :> 1) @@ ("a2" :> 2)
     ELSE circuit_breakers = <<>> /\ cb_ident = <<>>
  /\ env_steps = steps
  /\ semaphore = max_concurrent_tasks
  /\ active_tasks = {}
  /\ exec = [e \in Execs |-> IdleExec]
  /\ tk = [e \in Execs |-> [t \in TaskIds |-> NoCoroutine]]
  /\ hist = [e \in Execs |-> [t \in TaskIds |-> NoHistory]]
  /\ last_find = NoFind /\ prev_find = NoFind
  /\ task_status = [e \in Execs |-> [t \in TaskIds |-> "PENDING"]]
  /\ cancel_op = NoCancel
  /\ NoSwarm /\ NoGovernance

\* ... with a2 registered just now
InitFrom(steps, brks) == InitOn(steps, brks, {FreshBreaker})

InitWith(steps) == InitFrom(steps, InitBreakers)

Init == InitWith(0)

\* Orchestrator.register_agent(agent, capabilities)
Register(a) ==
  /\ env_steps < MaxEnvSteps
  /\ a \notin DOMAIN agents
  /\ env_steps' = env_steps + 1
  /\ agent_order' = IF a \in DOMAIN agents THEN agent_order ELSE Append(agent_order, a)
  /\ agents' = Put(agents, a, AgentKind(a))
  /\ agent_capabilities' = Put(agent_capabilities, a, AgentCaps(a))
  /\ agent_health' = Put(agent_health, a, TRUE)
  /\ IF enable_circuit_breaker
     THEN /\ circuit_breakers' =
               Put(circuit_breakers, a, FreshBreaker)
          /\ cb_ident' = Put(cb_ident, a, Cardinality(Agents) + env_steps + 1)
     ELSE UNCHANGED <<circuit_breakers, cb_ident>>
  /\ UNCHANGED <<now, cbVars, findVars, swarmVars, cancelVars, govVars, cfgVars, semaphore, active_tasks, exec, tk, hist>>

\* Orchestrator.unregister_agent(agent_id), for a registered agent
Unregister(a) ==
  /\ env_steps < MaxEnvSteps
  /\ a \in DOMAIN agents
  /\ env_steps' = env_steps + 1
  /\ agent_order' = SelectSeq(agent_order, LAMBDA b : b # a)
  /\ agents' = Remove(agents, a)
  /\ agent_capabilities' = Remove(agent_capabilities, a)
  /\ agent_health' = Remove(agent_health, a)
  /\ circuit_breakers' = Remove(circuit_breakers, a)
  /\ cb_ident' = Remove(cb_ident, a)
  /\ UNCHANGED <<now, cbVars, findVars, swarmVars, cancelVars, govVars, cfgVars, semaphore, active_tasks, exec, tk, hist>>

\* Orchestrator.execute(plan) is called: lines 221-275 up to the first gather
\* (a second call is made while the first one is under way)
Execute(e, p) ==
  /\ exec[e].status = "idle"
  /\ e # 1 => exec[1].status = "running"
  /\ LET x0 == [status |-> "running", plan |-> p, results |-> <<>>,
                completed |-> {}, failed |-> {},
                pending_deps |-> [t \in SeqToSet(p.tasks) |-> Deps(p, t)],
                tasks_to_run |-> <<>>, round |-> 0]
         x1 == loop_head(x0)
     IN /\ exec' = [exec EXCEPT ![e] = x1]
        /\ tk' = [tk EXCEPT ![e] = create_coroutines(@, x1)]
        /\ hist' = [hist EXCEPT ![e] = stamp_round(@, x1)]
  /\ UNCHANGED <<now, cbVars, findVars, swarmVars, cancelVars, govVars, cfgVars, regVars, circuit_breakers, semaphore, active_tasks>>

\* the semaphore test with the slot count ignored
sem_unguarded(s) == TRUE

\* asyncio.Semaphore.acquire: is a slot free
sem_available(s) == s > 0

\* the shared state after coroutine <<e, t>> ran to its next suspension or return
Advance(e, t, r) ==
  /\ tk' = [tk EXCEPT ![e][t] = r.tk]
  /\ hist' = [hist EXCEPT ![e][t] = r.hist]
  /\ circuit_breakers' = r.breakers
  /\ active_tasks' = r.active
  /\ semaphore' = r.sem

\* the event loop starts an _execute_task coroutine (line 317-319): it takes a
\* slot and runs on, or waits for one
StartTask(e, t) ==
  /\ tk[e][t].pc = "created"
  /\ \A i \in 1..Len(exec[e].tasks_to_run) :
        exec[e].tasks_to_run[i] = t =>
          \A j \in 1..(i - 1) : tk[e][exec[e].tasks_to_run[j]].pc # "created"
  /\ IF sem_available(semaphore)
     THEN Advance(e, t, run_task(tk[e][t], hist[e][t], e, t, circuit_breakers,
                                 active_tasks, semaphore - 1))
     ELSE /\ tk' = [tk EXCEPT ![e][t].pc = "waiting"]
          /\ UNCHANGED <<hist, circuit_breakers, active_tasks, semaphore>>
  /\ UNCHANGED <<now, cbVars, findVars, swarmVars, cancelVars, govVars, cfgVars, regVars, exec>>

\* a coroutine waiting in `async with self._semaphore` gets a released slot
ResumeTask(e, t) ==
  /\ tk[e][t].pc = "waiting"
  /\ sem_available(semaphore)
  /\ Advance(e, t, run_task(tk[e][t], hist[e][t], e, t, circuit_breakers,
                            active_tasks, semaphore - 1))
  /\ UNCHANGED <<now, cbVars, findVars, swarmVars, cancelVars, govVars, cfgVars, regVars, exec>>

\* what an agent call can end in: agent.execute_task under wait_for returns a task
\* that is COMPLETED or not, raises, or times out; a plain callable returns or raises
Outcomes(kind) ==
  IF kind = "execute_task" THEN {"completed", "not_completed", "raise", "timeout"}
  ELSE {"completed", "raise"}

\* is the breaker object coroutine c holds (line 334) still the registered one
\* (it is not once the agent was unregistered, or registered anew)
held_is_registered(brk, c) ==
  c.cb # 0 /\ c.agent \in DOMAIN brk /\ cb_ident[c.agent] = c.cb

\* lines 361-362: cb.record_success() on the breaker object the coroutine holds
record_success_on_held(brk, c) ==
  IF held_is_registered(brk, c) THEN [brk EXCEPT ![c.agent] = record_success(@)] ELSE brk

\* lines 380-381: cb.record_failure() on the breaker object the coroutine holds
record_failure_on_held(brk, c) ==
  IF held_is_registered(brk, c) THEN [brk EXCEPT ![c.agent] = record_failure(@, now)] ELSE brk

\* the awaited agent call of coroutine <<e, t>> ends (lines 344-383)
AgentReturns(e, t, o) ==
  /\ tk[e][t].pc = "calling"
  /\ o \in Outcomes(tk[e][t].kind)
  /\ LET c == tk[e][t]
         h == [hist[e][t] EXCEPT !.recorded = IF c.cb # 0 THEN @ \cup {c.agent} ELSE @]
     IN IF o \in {"completed", "not_completed"}
        THEN Advance(e, t,
               [tk |-> [c EXCEPT !.pc = "done",
                                 !.res = ExecutionResult(o = "completed", "", 0)],
                hist |-> [h EXCEPT !.admitted = NoTime],
                breakers |-> record_success_on_held(circuit_breakers, c),
                active |-> active_tasks \ {<<e, t>>},
                sem |-> semaphore + 1])
        ELSE Advance(e, t,
               run_candidates(c, h, <<e, t>>, c.idx + 1,
                              record_failure_on_held(circuit_breakers, c),
                              active_tasks, semaphore))
  /\ UNCHANGED <<now, cbVars, findVars, swarmVars, cancelVars, govVars, cfgVars, regVars, exec>>

\* asyncio.gather with the barrier dropped: it returns as soon as one coroutine is done
gather_first_done(e) ==
  \E i \in 1..Len(exec[e].tasks_to_run) : tk[e][exec[e].tasks_to_run[i]].pc = "done"

\* execute line 275: asyncio.gather returns once every coroutine of the batch is done
gather_done(e) ==
  \A i \in 1..Len(exec[e].tasks_to_run) : tk[e][exec[e].tasks_to_run[i]].pc = "done"

\* gather returns to execute: lines 277-300, then the loop head again
GatherReturns(e) ==
  /\ exec[e].status = "running"
  /\ gather_done(e)
  /\ LET r == process_results(exec[e], [t \in TaskIds |-> tk[e][t].res], 1, FALSE)
         x1 == IF r.raised THEN [r.exec EXCEPT !.status = "raised"] ELSE loop_head(r.exec)
         joined == [t \in TaskIds |->
                      IF t \in SeqToSet(exec[e].tasks_to_run) /\ tk[e][t].pc = "done"
                      THEN [tk[e][t] EXCEPT !.pc = "joined"] ELSE tk[e][t]]
     IN /\ exec' = [exec EXCEPT ![e] = x1]
        /\ tk' = [tk EXCEPT ![e] = create_coroutines(joined, x1)]
        /\ hist' = [hist EXCEPT ![e] = stamp_round(@, x1)]
  /\ UNCHANGED <<now, cbVars, findVars, swarmVars, cancelVars, govVars, cfgVars, regVars, circuit_breakers, semaphore, active_tasks>>

\* time.time() advances
Tick ==
  /\ env_steps < MaxEnvSteps
  /\ env_steps' = env_steps + 1
  /\ now' = now + TickLen
  /\ UNCHANGED <<cbVars, findVars, swarmVars, cancelVars, govVars, cfgVars, runVars, agent_order, agents, agent_capabilities,
                 agent_health, cb_ident>>

Next ==
  \/ \E e \in Execs : \E p \in Plans(e) : Execute(e, p)
  \/ \E e \in Execs, t \in TaskIds : StartTask(e, t)
  \/ \E e \in Execs, t \in TaskIds : ResumeTask(e, t)
  \/ \E e \in Execs, t \in TaskIds : \E o \in {"completed", "not_completed", "raise", "timeout"} :
        AgentReturns(e, t, o)
  \/ \E e \in Execs : GatherReturns(e)
  \/ \E a \in Churn : Register(a)
  \/ \E a \in Churn : Unregister(a)
  \/ Tick

Spec == Init /\ [][Next]_vars

\* One execute() call on its own, with the clock and the registry changing under
\* it: the steps of its coroutines ...
FirstCallStep ==
  \/ \E t \in TaskIds : StartTask(1, t)
  \/ \E t \in TaskIds : \E o \in {"completed", "not_completed", "raise", "timeout"} :
        AgentReturns(1, t, o)
  \/ GatherReturns(1)

\* ... and everything else that can happen: the call itself, and one clock
\* advance or unregister_agent call somewhere under it
FirstCallNext ==
  \/ \E p \in Plans(1) : Execute(1, p)
  \/ FirstCallStep
  \/ \E a \in Churn : Unregister(a)
  \/ Tick

FirstCallInit == InitWith(MaxEnvSteps - 1)

\* the event loop keeps running the coroutines that can run, and every agent
\* call ends (it returns, raises or times out)
FairSpec == FirstCallInit /\ [][FirstCallNext]_vars /\ WF_vars(FirstCallStep)

\* --------------------------------- HangSpec: agent calls that need not ever end
\* the steps that are bound to happen: the event loop runs the coroutines that can
\* run, and a call made through asyncio.wait_for (lines 345-348) ends, by
\* default_timeout at the latest; a plain callable awaited at line 353 may never
\* return
TimedStep ==
  \/ \E t \in TaskIds : StartTask(1, t)
  \/ \E t \in TaskIds : \E o \in {"completed", "not_completed", "raise", "timeout"} :
        tk[1][t].kind = "execute_task" /\ AgentReturns(1, t, o)
  \/ GatherReturns(1)

HangSpec == FirstCallInit /\ [][FirstCallNext]_vars /\ WF_vars(TimedStep)

\* ------------------- SpecTry: the candidate loop with a breaker on its last probe
\* a breaker an earlier run left HALF_OPEN with one probe of its budget unspent
LastProbe ==
  [FreshBreaker EXCEPT !.state = "HALF_OPEN", !.failure_count = DefaultFailureThreshold,
                       !.last_failure_time = 0,
                       !.half_open_calls = DefaultHalfOpenMaxCalls - 1]

TryInit == InitFrom(MaxEnvSteps - 1, InitBreakers \cup {LastProbe})

SpecTry == TryInit /\ [][FirstCallNext]_vars

\* ------------- SpecLate: two execute() calls sharing an agent about to be tripped
\* a breaker one failure short of failure_threshold
NearThreshold ==
  [FreshBreaker EXCEPT !.failure_count = DefaultFailureThreshold - 1,
                       !.last_failure_time = 0]

LateInit == InitOn(0, {FreshBreaker}, {NearThreshold})

SpecLate == LateInit /\ [][Next]_vars

\* ------------------------- SpecCancel: cancel_task under the first execute() call
\* cancel_task without the membership test
cancel_task_untracked(act, st, k) == [ret |-> TRUE, status |-> "CANCELLED"]

\* Orchestrator.cancel_task(task_id): the value returned and the task's status
\* afterwards; act: _active_tasks, st: the task's status, k: the task
cancel_task(act, st, k) ==
  IF k \in act THEN [ret |-> TRUE, status |-> "CANCELLED"]
  ELSE [ret |-> FALSE, status |-> st]

\* a caller awaits orchestrator.cancel_task(task_id)
CancelTask(e, t) ==
  LET r == cancel_task(active_tasks, task_status[e][t], <<e, t>>) IN
  /\ task_status' = [task_status EXCEPT ![e][t] = r.status]
  /\ cancel_op' = [task |-> t, found |-> task_status[e][t], ret |-> r.ret]
  /\ UNCHANGED <<now, cbVars, orchVars, swarmVars, govVars>>

\* the agent called for the task writes the task's status from inside the call:
\* Agent.execute_task sets COMPLETED before it returns and FAILED before it re-raises
AgentMarks(e, t, s) ==
  /\ tk[e][t].pc = "calling"
  /\ tk[e][t].kind = "execute_task"
  /\ task_status[e][t] # s
  /\ task_status' = [task_status EXCEPT ![e][t] = s]
  /\ UNCHANGED <<now, cbVars, orchVars, swarmVars, govVars, cancel_op>>

\* one execute() call with nothing else changing under it
CancelInit == InitWith(MaxEnvSteps)

CancelNext ==
  \/ \E p \in Plans(1) : Execute(1, p)
  \/ FirstCallStep
  \/ \E t \in TaskIds : CancelTask(1, t)
  \/ \E t \in TaskIds : \E s \in {"COMPLETED", "FAILED"} : AgentMarks(1, t, s)

SpecCancel == CancelInit /\ [][CancelNext]_vars

\* ------------------------------- SpecFind: find_agents_for_task called directly
\* the required_capabilities lists passed to find_agents_for_task
Reqs == {{}, {"x"}, {"y"}}

\* a caller evaluates orchestrator.find_agents_for_task(req)
FindAgents(req) ==
  LET f == find_agents_for_task(req, circuit_breakers) IN
  /\ circuit_breakers' = f.breakers
  /\ last_find' = [req |-> req, ret |-> f.candidates, before |-> circuit_breakers,
                   after |-> f.breakers, steps |-> env_steps]
  /\ prev_find' = last_find
  /\ UNCHANGED <<now, cbVars, swarmVars, cancelVars, govVars, cfgVars, regVars, semaphore, active_tasks, exec, tk,
                 hist>>

FindNext ==
  \/ \E req \in Reqs : FindAgents(req)
  \/ \E a \in Agents : Register(a) \/ Unregister(a)
  \/ Tick

SpecFind == Init /\ [][FindNext]_vars

\* ----------------------------------------------------------- SwarmCoordinator
SwarmAgents == {"m0", "m1", "m2"}
ConsensusTypes == {"unanimous", "majority", "leader"}
AllocationStrategies == {"round_robin", "capability", "bid"}
SwarmTasks == {"t1", "t2", "t3"}
NoAgent == "None"        \* distribute_task returning None
ProposalIds == {1}       \* the ids given to propose calls, in order
UnknownProposal == 0     \* a proposal id no propose call has produced
SwTickLen == 15          \* the event loop's clock advances in steps of this length
Timeouts == {0, SwTickLen}   \* the timeout argument of propose; 0 stands for None and 0

\* the capabilities argument each agent passes to join
MemberCaps(a) == IF a = "m0" THEN {"x"} ELSE IF a = "m1" THEN {"x", "y"} ELSE {}

\* task.required_capabilities, by name
TaskCaps(t) == IF t = "t1" THEN {"x"} ELSE IF t = "t2" THEN {"y"} ELSE {"z"}

\* SwarmConfig
SwarmConfig(ct, maxa, strat) ==
  [ consensus_type |-> ct, vote_timeout |-> DefaultVoteTimeout,
    max_agents |-> maxa, allocation_strategy |-> strat ]

\* no distribute_task call made yet; later: how many were made, whether all of
\* them saw the same membership, that membership, and the agents they returned
NoDistribution == [calls |-> 0, stable |-> TRUE, order |-> <<>>, rets |-> <<>>]

\* a SwarmCoordinator call and the value it returns
SwCall(name, a, pid, ret) == [name |-> name, agent |-> a, proposal |-> pid, ret |-> ret]

\* SwarmCoordinator.__init__ with a SwarmConfig drawn from the given values of
\* consensus_type, max_agents and allocation_strategy
SwarmInit(types, sizes, strategies) ==
  /\ now = 0
  /\ cb = NewCircuitBreaker(1, 1, 1, 1) /\ cbOp = NoOp /\ cbPrev = cb
  /\ cbStreak = 0 /\ cbWiped = FALSE /\ cbEpisode = NoEpisode
  /\ max_concurrent_tasks = 1 /\ enable_circuit_breaker = TRUE
  /\ agent_order = <<>> /\ agents = <<>> /\ agent_capabilities = <<>>
  /\ agent_health = <<>> /\ circuit_breakers = <<>> /\ cb_ident = <<>>
  /\ env_steps = 0 /\ semaphore = 1 /\ active_tasks = {}
  /\ exec = <<>> /\ tk = <<>> /\ hist = <<>>
  /\ last_find = <<>> /\ prev_find = <<>>
  /\ \E ct \in types, maxa \in sizes, strat \in strategies :
       config = SwarmConfig(ct, maxa, strat)
  /\ members = <<>> /\ member_order = <<>>
  /\ on_join = 0 /\ on_leave = 0 /\ pending = {}
  /\ active_proposals = <<>> /\ votes = <<>> /\ next_proposal = 1
  /\ proposal_results = <<>> /\ vote_log = <<>>
  /\ allocated_tasks = <<>> /\ round_robin_index = 0 /\ dist_log = NoDistribution
  /\ sw_op = SwCall("none", "", 0, FALSE)
  /\ NoTasks /\ NoGovernance

\* join line 123 with > for >=
swarm_full_late(n, maxa) == n > maxa

\* join line 123: len(self._members) >= self.config.max_agents
swarm_full(n, maxa) == n >= maxa

\* SwarmCoordinator.join(agent_id, capabilities) up to its first suspension; the
\* value recorded is the one the call returns once its callbacks have run
Join(a) ==
  /\ ~\E c \in pending : c.call = "join" /\ c.agent = a
  /\ IF swarm_full(Cardinality(DOMAIN members), config.max_agents)
     THEN /\ sw_op' = SwCall("join", a, 0, FALSE)
          /\ UNCHANGED <<members, member_order, pending>>
     ELSE /\ members' = Put(members, a, [capabilities |-> MemberCaps(a), task_count |-> 0])
          /\ member_order' = IF a \in DOMAIN members THEN member_order
                             ELSE Append(member_order, a)
          /\ pending' = IF on_join > 0
                        THEN pending \cup {[call |-> "join", agent |-> a, idx |-> 1]}
                        ELSE pending
          /\ sw_op' = SwCall("join", a, 0, TRUE)
  /\ UNCHANGED <<now, cbVars, orchVars, cancelVars, govVars, config, on_join, on_leave, active_proposals, votes,
                 next_proposal, proposal_results, vote_log, allocated_tasks,
                 round_robin_index, dist_log>>

\* SwarmCoordinator.leave(agent_id) up to its first suspension (_member_tasks is
\* never written, so lines 152-154 do nothing)
Leave(a) ==
  /\ ~\E c \in pending : c.call = "leave" /\ c.agent = a
  /\ IF a \notin DOMAIN members
     THEN /\ sw_op' = SwCall("leave", a, 0, FALSE)
          /\ UNCHANGED <<members, member_order, pending>>
     ELSE /\ members' = Remove(members, a)
          /\ member_order' = SelectSeq(member_order, LAMBDA b : b # a)
          /\ pending' = IF on_leave > 0
                        THEN pending \cup {[call |-> "leave", agent |-> a, idx |-> 1]}
                        ELSE pending
          /\ sw_op' = SwCall("leave", a, 0, TRUE)
  /\ UNCHANGED <<now, cbVars, orchVars, cancelVars, govVars, config, on_join, on_leave, active_proposals, votes,
                 next_proposal, proposal_results, vote_log, allocated_tasks,
                 round_robin_index, dist_log>>

\* the callback a join or leave coroutine awaits returns or raises: the loop goes
\* on to the next callback registered, or the call returns True
CallbackReturns(c) ==
  /\ c \in pending
  /\ LET n == IF c.call = "join" THEN on_join ELSE on_leave IN
     pending' = IF c.idx < n
                THEN (pending \ {c}) \cup {[c EXCEPT !.idx = @ + 1]}
                ELSE pending \ {c}
  /\ UNCHANGED <<now, cbVars, orchVars, cancelVars, govVars, config, members, member_order, on_join, on_leave,
                 active_proposals, votes, next_proposal, proposal_results, vote_log,
                 allocated_tasks, round_robin_index, dist_log, sw_op>>

\* SwarmCoordinator.on_join(callback)
OnJoin ==
  /\ on_join < MaxCallbacks
  /\ on_join' = on_join + 1
  /\ sw_op' = SwCall("on_join", "", 0, FALSE)
  /\ UNCHANGED <<now, cbVars, orchVars, cancelVars, govVars, config, members, member_order, on_leave, pending,
                 active_proposals, votes, next_proposal, proposal_results, vote_log,
                 allocated_tasks, round_robin_index, dist_log>>

\* SwarmCoordinator.on_leave(callback)
OnLeave ==
  /\ on_leave < MaxCallbacks
  /\ on_leave' = on_leave + 1
  /\ sw_op' = SwCall("on_leave", "", 0, FALSE)
  /\ UNCHANGED <<now, cbVars, orchVars, cancelVars, govVars, config, members, member_order, on_join, pending,
                 active_proposals, votes, next_proposal, proposal_results, vote_log,
                 allocated_tasks, round_robin_index, dist_log>>

\* propose line 185: timeout = timeout or self.config.vote_timeout
effective_timeout(t) == IF t = 0 THEN config.vote_timeout ELSE t

\* SwarmCoordinator.propose(action, proposal, timeout) up to its sleep
Propose(t) ==
  /\ next_proposal \in ProposalIds
  /\ LET pid == next_proposal IN
     /\ active_proposals' = Put(active_proposals, pid,
                                [started_at |-> now, sleep |-> effective_timeout(t)])
     /\ votes' = Put(votes, pid, <<>>)
     /\ vote_log' = Put(vote_log, pid, <<>>)
     /\ next_proposal' = pid + 1
     /\ sw_op' = SwCall("propose", "", pid, FALSE)
  /\ UNCHANGED <<now, cbVars, orchVars, cancelVars, govVars, config, members, member_order, on_join, on_leave,
                 pending, proposal_results, allocated_tasks, round_robin_index, dist_log>>

\* vote without the membership test of lines 243-244
vote_accepted_from_anyone(pid, a) == pid \in DOMAIN active_proposals

\* vote lines 240-244: the proposal is open and the voter is a member
vote_accepted(pid, a) == pid \in DOMAIN active_proposals /\ a \in DOMAIN members

\* SwarmCoordinator.vote(proposal_id, agent_id, vote)
Vote(pid, a, v) ==
  /\ IF ~vote_accepted(pid, a)
     THEN sw_op' = SwCall("vote", a, pid, FALSE) /\ UNCHANGED <<votes, vote_log>>
     ELSE /\ Len(votes[pid]) < MaxVotes
          /\ votes' = [votes EXCEPT ![pid] = Append(@, [voter |-> a, vote |-> v])]
          /\ vote_log' = [vote_log EXCEPT ![pid] = Append(@, [voter |-> a, vote |-> v])]
          /\ sw_op' = SwCall("vote", a, pid, TRUE)
  /\ UNCHANGED <<now, cbVars, orchVars, cancelVars, govVars, config, members, member_order, on_join, on_leave,
                 pending, active_proposals, next_proposal, proposal_results,
                 allocated_tasks, round_robin_index, dist_log>>

\* yes_votes of propose line 205
yes_votes(vs) == Cardinality({i \in 1..Len(vs) : vs[i].vote})

\* majority with >= for >
majority_or_tie(yes, n) == 2 * yes >= n

\* propose line 213: yes_votes > len(self._members) / 2 (true division)
majority(yes, n) == 2 * yes > n

\* propose lines 209-216: the consensus flag
consensus(ct, yes, no, n) ==
  IF ct = "unanimous" THEN yes = n /\ no = 0
  ELSE IF ct = "majority" THEN majority(yes, n)
  ELSE IF ct = "leader" THEN yes >= 1
  ELSE FALSE

\* a sleep that may end at any time (a tally as soon as votes are in)
sleep_cut_short(pid) == TRUE

\* propose line 201: asyncio.sleep(timeout) has run its full length
sleep_over(pid) ==
  now - active_proposals[pid].started_at >= active_proposals[pid].sleep

\* propose from the end of its sleep to its return: tally and cleanup
ProposeReturns(pid) ==
  /\ pid \in DOMAIN active_proposals
  /\ sleep_over(pid)
  /\ LET vs == IF pid \in DOMAIN votes THEN votes[pid] ELSE <<>>
         yes == yes_votes(vs)
         no == Len(vs) - yes
         n == Cardinality(DOMAIN members)
         c == consensus(config.consensus_type, yes, no, n)
     IN /\ proposal_results' = Put(proposal_results, pid,
             [ consensus |-> c, yes_votes |-> yes, no_votes |-> no, total_members |-> n ])
        /\ sw_op' = SwCall("propose_returns", "", pid, c)
  /\ active_proposals' = Remove(active_proposals, pid)
  /\ votes' = Remove(votes, pid)
  /\ UNCHANGED <<now, cbVars, orchVars, cancelVars, govVars, config, members, member_order, on_join, on_leave,
                 pending, next_proposal, vote_log, allocated_tasks, round_robin_index,
                 dist_log>>

\* the event loop's clock advances
SwTick ==
  /\ now < MaxSwarmTicks * SwTickLen
  /\ now' = now + SwTickLen
  /\ UNCHANGED <<cbVars, orchVars, swarmVars, cancelVars, govVars>>

\* membership changes with callbacks registered and awaited
JoinNext ==
  \/ \E a \in SwarmAgents : Join(a) \/ Leave(a)
  \/ \E c \in pending : CallbackReturns(c)
  \/ OnJoin
  \/ OnLeave

JoinInit == SwarmInit({"majority"}, 1..MaxAgents, {"round_robin"})

SpecJoin == JoinInit /\ [][JoinNext]_vars

\* membership changes and one voting round
VoteNext ==
  \/ \E a \in SwarmAgents : Join(a) \/ Leave(a)
  \/ \E t \in Timeouts : Propose(t)
  \/ \E pid \in ProposalIds \cup {UnknownProposal}, a \in SwarmAgents, v \in BOOLEAN :
       Vote(pid, a, v)
  \/ \E pid \in ProposalIds : ProposeReturns(pid)
  \/ SwTick

VoteInit == SwarmInit(ConsensusTypes, {MaxAgents}, {"round_robin"})

SpecVote == VoteInit /\ [][VoteNext]_vars

\* distribute_task whose round-robin branch indexes with the counter plus one
choose_agent_skipping_first(t) ==
  LET n == Len(member_order) IN
  IF n = 0 THEN [agent |-> NoAgent, index |-> round_robin_index]
  ELSE IF config.allocation_strategy = "round_robin"
  THEN [agent |-> member_order[((round_robin_index + 1) % n) + 1],
        index |-> round_robin_index + 1]
  ELSE [agent |-> member_order[1], index |-> round_robin_index]

\* distribute_task whose capability branch advances the round-robin counter
\* when no member fits
choose_agent_counting_misses(t) ==
  LET n == Len(member_order)
      fit == {i \in 1..n : TaskCaps(t) \subseteq members[member_order[i]].capabilities}
  IN
  IF n = 0 THEN [agent |-> NoAgent, index |-> round_robin_index]
  ELSE IF config.allocation_strategy = "round_robin"
  THEN [agent |-> member_order[(round_robin_index % n) + 1], index |-> round_robin_index + 1]
  ELSE IF config.allocation_strategy = "capability"
  THEN [agent |-> IF fit = {} THEN NoAgent
                  ELSE member_order[CHOOSE i \in fit : \A j \in fit : i <= j],
        index |-> IF fit = {} THEN round_robin_index + 1 ELSE round_robin_index]
  ELSE [agent |-> member_order[1], index |-> round_robin_index]

\* distribute_task whose capability branch keeps the last fitting member
\* (the loop of lines 281-284 without its break)
choose_agent_last_fit(t) ==
  LET n == Len(member_order)
      fit == {i \in 1..n : TaskCaps(t) \subseteq members[member_order[i]].capabilities}
  IN
  IF n = 0 THEN [agent |-> NoAgent, index |-> round_robin_index]
  ELSE IF config.allocation_strategy = "round_robin"
  THEN [agent |-> member_order[(round_robin_index % n) + 1], index |-> round_robin_index + 1]
  ELSE IF config.allocation_strategy = "capability"
  THEN [agent |-> IF fit = {} THEN NoAgent
                  ELSE member_order[CHOOSE i \in fit : \A j \in fit : i >= j],
        index |-> round_robin_index]
  ELSE [agent |-> member_order[1], index |-> round_robin_index]

\* distribute_task lines 267-288: the agent chosen (NoAgent for None) and the
\* round-robin counter afterwards
choose_agent(t) ==
  LET n == Len(member_order) IN
  IF n = 0 THEN [agent |-> NoAgent, index |-> round_robin_index]
  ELSE IF config.allocation_strategy = "round_robin"
  THEN [agent |-> member_order[(round_robin_index % n) + 1], index |-> round_robin_index + 1]
  ELSE IF config.allocation_strategy = "capability"
  THEN LET fit == {i \in 1..n : TaskCaps(t) \subseteq members[member_order[i]].capabilities}
       IN [agent |-> IF fit = {} THEN NoAgent
                     ELSE member_order[CHOOSE i \in fit : \A j \in fit : i <= j],
           index |-> round_robin_index]
  ELSE IF config.allocation_strategy = "bid"
  THEN [agent |-> member_order[1], index |-> round_robin_index]
  ELSE [agent |-> NoAgent, index |-> round_robin_index]

\* SwarmCoordinator.distribute_task(task)
DistributeTask(t) ==
  /\ dist_log.calls < MaxDistribute
  /\ LET c == choose_agent(t) IN
     /\ round_robin_index' = c.index
     /\ IF c.agent # NoAgent
        THEN /\ members' = [members EXCEPT ![c.agent].task_count = @ + 1]
             /\ allocated_tasks' = Put(allocated_tasks, t, c.agent)
        ELSE UNCHANGED <<members, allocated_tasks>>
     /\ dist_log' =
          IF dist_log.stable /\ (dist_log.calls = 0 \/ dist_log.order = member_order)
          THEN [ calls |-> dist_log.calls + 1, stable |-> TRUE, order |-> member_order,
                 rets |-> Append(dist_log.rets, c.agent) ]
          ELSE [ calls |-> dist_log.calls + 1, stable |-> FALSE, order |-> <<>>,
                 rets |-> <<>> ]
     /\ sw_op' = SwCall("distribute_task", c.agent, 0, c.agent # NoAgent)
  /\ UNCHANGED <<now, cbVars, orchVars, cancelVars, govVars, config, member_order, on_join, on_leave, pending,
                 active_proposals, votes, next_proposal, proposal_results, vote_log>>

\* membership changes and task allocation
AllocNext ==
  \/ \E a \in SwarmAgents : Join(a) \/ Leave(a)
  \/ \E t \in SwarmTasks : DistributeTask(t)

AllocInit == SwarmInit({"majority"}, {MaxAgents}, AllocationStrategies)

SpecAlloc == AllocInit /\ [][AllocNext]_vars

\* ------------------------------------------------------------------ KillSwitch
KsAgents == {"k1", "k2"}
Namespaces == {"ns1"}
KsSwarms == {"s1"}
Everyone == "*"          \* the target handed to a GLOBAL call
NoValue == "None"        \* metadata.get(key) of a key that is not set
Levels == {"AGENT", "SWARM", "NAMESPACE", "GLOBAL"}

\* the targets a call at the level is made with
Targets(level) ==
  IF level = "AGENT" THEN KsAgents
  ELSE IF level = "SWARM" THEN KsSwarms
  ELSE IF level = "NAMESPACE" THEN Namespaces
  ELSE {Everyone}

\* the metadata handed to monitor_agent: namespace and swarm, each set or not
Metadatas == [namespace : Namespaces \cup {NoValue}, swarm : KsSwarms \cup {NoValue}]

\* self._agent_metadata.get(agent_id, {}) of is_killed line 281
metadata_of(md, a) ==
  IF a \in DOMAIN md THEN md[a] ELSE [namespace |-> NoValue, swarm |-> NoValue]

\* KillSwitch.is_killed(agent_id)
is_killed(a) ==
  \/ global_kill
  \/ a \in killed_agents
  \/ metadata_of(agent_metadata, a).namespace \in killed_namespaces
  \/ metadata_of(agent_metadata, a).swarm \in killed_swarms

\* KillSwitch.check_or_raise(agent_id): the exception raised, if any
check_or_raise(a) == IF is_killed(a) THEN "KillSwitchActivated" ELSE NoValue

\* KillSwitch.monitor_agent(agent_id, task, metadata)
MonitorAgent(a, md) ==
  /\ monitored' = monitored \cup {a}
  /\ agent_metadata' = Put(agent_metadata, a, md)
  /\ UNCHANGED <<now, cbVars, orchVars, swarmVars, cancelVars, auditVars, killed_agents,
                 killed_swarms, killed_namespaces, global_kill, events, agent_kills>>

\* KillSwitch.unmonitor_agent(agent_id)
UnmonitorAgent(a) ==
  /\ IF a \in monitored
     THEN /\ monitored' = monitored \ {a}
          /\ agent_metadata' = Remove(agent_metadata, a)
     ELSE UNCHANGED <<monitored, agent_metadata>>
  /\ UNCHANGED <<now, cbVars, orchVars, swarmVars, cancelVars, auditVars, killed_agents,
                 killed_swarms, killed_namespaces, global_kill, events, agent_kills>>

\* activate lines 179-210: the agent ids the call adds to _killed_agents
newly_killed(level, target) ==
  IF level = "GLOBAL" THEN monitored
  ELSE IF level = "NAMESPACE"
    THEN {a \in DOMAIN agent_metadata : agent_metadata[a].namespace = target}
  ELSE IF level = "SWARM"
    THEN {a \in DOMAIN agent_metadata : agent_metadata[a].swarm = target}
  ELSE {target}

\* activate lines 181-210: event.agents_terminated, the monitored tasks cancelled
agents_terminated(level, target) ==
  Cardinality(newly_killed(level, target) \cap monitored)

\* KillSwitch.activate(level, target, reason); the callbacks of lines 216-220 are
\* handed the event
Activate(level, target) ==
  /\ Len(events) < MaxEvents
  /\ global_kill' = (global_kill \/ level = "GLOBAL")
  /\ killed_namespaces' =
       IF level = "NAMESPACE" THEN killed_namespaces \cup {target} ELSE killed_namespaces
  /\ killed_swarms' = IF level = "SWARM" THEN killed_swarms \cup {target} ELSE killed_swarms
  /\ killed_agents' = killed_agents \cup newly_killed(level, target)
  /\ events' = Append(events, [level |-> level, target |-> target,
                                agents_terminated |-> agents_terminated(level, target)])
  /\ agent_kills' = IF level = "AGENT" THEN agent_kills \cup {target} ELSE agent_kills
  /\ UNCHANGED <<now, cbVars, orchVars, swarmVars, cancelVars, auditVars, monitored,
                 agent_metadata>>

\* deactivate at the AGENT level leaving _killed_agents as it is
deactivated_agents_kept(level, target) == killed_agents

\* deactivate lines 256-261: _killed_agents after the call
deactivated_agents(level, target) ==
  IF level = "AGENT" THEN killed_agents \ {target} ELSE killed_agents

\* deactivate: the value returned
deactivate_returns(level, target) ==
  IF level = "GLOBAL" THEN TRUE
  ELSE IF level = "NAMESPACE" THEN target \in killed_namespaces
  ELSE IF level = "SWARM" THEN target \in killed_swarms
  ELSE target \in killed_agents

\* KillSwitch.deactivate(level, target)
Deactivate(level, target) ==
  /\ global_kill' = (global_kill /\ level # "GLOBAL")
  /\ killed_namespaces' =
       IF level = "NAMESPACE" THEN killed_namespaces \ {target} ELSE killed_namespaces
  /\ killed_swarms' = IF level = "SWARM" THEN killed_swarms \ {target} ELSE killed_swarms
  /\ killed_agents' = deactivated_agents(level, target)
  /\ agent_kills' = IF level = "AGENT" THEN agent_kills \ {target} ELSE agent_kills
  /\ UNCHANGED <<now, cbVars, orchVars, swarmVars, cancelVars, auditVars, monitored,
                 agent_metadata, events>>

\* a KillSwitch and an AuditLogger just constructed, and nothing else
GovInit ==
  /\ now = 0
  /\ cb = NewCircuitBreaker(1, 1, 1, 1) /\ cbOp = NoOp /\ cbPrev = cb
  /\ cbStreak = 0 /\ cbWiped = FALSE /\ cbEpisode = NoEpisode
  /\ max_concurrent_tasks = 1 /\ enable_circuit_breaker = TRUE
  /\ agent_order = <<>> /\ agents = <<>> /\ agent_capabilities = <<>>
  /\ agent_health = <<>> /\ circuit_breakers = <<>> /\ cb_ident = <<>>
  /\ env_steps = 0 /\ semaphore = 1 /\ active_tasks = {}
  /\ exec = <<>> /\ tk = <<>> /\ hist = <<>>
  /\ last_find = <<>> /\ prev_find = <<>>
  /\ NoSwarm /\ NoTasks /\ NoGovernance

KillNext ==
  \/ \E a \in KsAgents, md \in Metadatas : MonitorAgent(a, md)
  \/ \E a \in KsAgents : UnmonitorAgent(a)
  \/ \E level \in Levels : \E target \in Targets(level) : Activate(level, target)
  \/ \E level \in Levels : \E target \in Targets(level) : Deactivate(level, target)

SpecKill == GovInit /\ [][KillNext]_vars

\* ----------------------------------------------------------------- AuditLogger
AuditActions == {"action-1", "action-2"}
AuditAgents == {NoValue, "agent-1"}          \* agent_id: None or an agent

\* the id of no event (the None verify_chain returns for an intact chain)
NoEvent == <<>>

\* AuditEvent.compute_hash: the digest of the hashed fields, as the tuple of their
\* values (input_data and output_data are left at their defaults)
compute_hash(e) ==
  <<e.id, e.timestamp, e.agent_id, e.action, e.resource, e.success, e.previous_hash>>

\* log line 159 leaving _last_hash as it was
next_last_hash_stale(old, h) == old

\* log line 159: self._last_hash = event.event_hash
next_last_hash(old, h) == h

\* log lines 142-158: the event built and hashed; id and timestamp come from the
\* clock at construction
new_event(action, agent_id, success, t, prev) ==
  LET e == [id |-> <<"evt", t>>, timestamp |-> t, agent_id |-> agent_id,
            action |-> action, resource |-> "", success |-> success,
            error |-> IF success THEN NoValue ELSE "error",
            previous_hash |-> prev, event_hash |-> NoHash]
  IN [e EXCEPT !.event_hash = compute_hash(e)]

\* AuditLogger.log(action, agent_id=..., success=...) with the list storage
Log(action, agent_id, success) ==
  /\ event_count < MaxLogged
  /\ LET event == new_event(action, agent_id, success, now, last_hash) IN
       /\ last_hash' = next_last_hash(last_hash, event.event_hash)
       /\ storage' = Append(storage, event)
  /\ event_count' = event_count + 1
  /\ UNCHANGED <<now, cbVars, orchVars, swarmVars, cancelVars, ksVars>>

\* the clock read by datetime.utcnow() advances
AuditTick ==
  /\ now < MaxAuditTime
  /\ now' = now + 1
  /\ UNCHANGED <<cbVars, orchVars, swarmVars, cancelVars, govVars>>

RECURSIVE insert_by_timestamp(_, _)
\* one step of the stable sort: e goes behind every event whose timestamp is not
\* later than its own
insert_by_timestamp(s, e) ==
  IF s = <<>> THEN <<e>>
  ELSE IF s[Len(s)].timestamp <= e.timestamp THEN Append(s, e)
  ELSE Append(insert_by_timestamp(SubSeq(s, 1, Len(s) - 1), e), s[Len(s)])

RECURSIVE sorted_by_timestamp(_)
\* verify_chain line 245: sorted(self.storage, key=lambda e: e.timestamp)
sorted_by_timestamp(s) ==
  IF s = <<>> THEN <<>>
  ELSE insert_by_timestamp(sorted_by_timestamp(SubSeq(s, 1, Len(s) - 1)), s[Len(s)])

RECURSIVE verify_from(_, _, _)
\* verify_chain lines 254-266: the loop from the i-th event on
verify_from(evs, i, previous_hash) ==
  IF i > Len(evs) THEN [valid |-> TRUE, broken |-> NoEvent]
  ELSE IF evs[i].previous_hash # previous_hash THEN [valid |-> FALSE, broken |-> evs[i].id]
  ELSE IF evs[i].event_hash # compute_hash(evs[i]) THEN [valid |-> FALSE, broken |-> evs[i].id]
  ELSE verify_from(evs, i + 1, evs[i].event_hash)

\* AuditLogger.verify_chain() on the list storage s
verify_chain(s) == verify_from(sorted_by_timestamp(s), 1, NoHash)

AuditNext ==
  \/ \E action \in AuditActions, agent_id \in AuditAgents, success \in BOOLEAN :
        Log(action, agent_id, success)
  \/ AuditTick

SpecAudit == GovInit /\ [][AuditNext]_vars

\* ------------------------------------------------------------------ claims

\* C9: from a CLOSED breaker with failure_count 0, fewer than failure_threshold
\* consecutive record_failure calls leave it CLOSED (failure_count counting them),
\* the failure_threshold-th one opens it, and a record_success in CLOSED resets
\* failure_count to 0 so that the count starts over.
C9_OpensAtThreshold ==
  /\ cbStreak < cb.failure_threshold => cb.state = "CLOSED" /\ cb.failure_count = cbStreak
  /\ (cbStreak = cb.failure_threshold /\ cbOp.name = "record_failure") => cb.state = "OPEN"
  /\ (cbOp.name = "record_success" /\ cbPrev.state = "CLOSED")
       => cb.state = "CLOSED" /\ cb.failure_count = 0

\* C9 witness: a success in CLOSED wiped a non-empty failure streak, and later
\* the breaker opened on its failure_threshold-th consecutive failure.
C9_Witness ==
  /\ cbWiped
  /\ cb.failure_threshold = MaxParam
  /\ cbStreak = cb.failure_threshold
  /\ cbOp.name = "record_failure"
  /\ cb.state = "OPEN"
  /\ cbPrev.state = "CLOSED"

\* C10: a can_execute call on an OPEN breaker returns false and changes nothing
\* while now - last_failure_time < recovery_timeout; once that difference reaches
\* recovery_timeout the call returns true and leaves the breaker HALF_OPEN with
\* half_open_calls = 0 (nothing else changed).
C10_OpenGate ==
  (cbOp.name = "can_execute" /\ cbPrev.state = "OPEN") =>
     IF cbOp.at - cbPrev.last_failure_time < cbPrev.recovery_timeout
     THEN cbOp.ret = FALSE /\ cb = cbPrev
     ELSE /\ cbOp.ret = TRUE
          /\ cb = [cbPrev EXCEPT !.state = "HALF_OPEN", !.half_open_calls = 0]

\* C10 witness: the probe admitted exactly when the timeout has just elapsed.
C10_Witness ==
  /\ cbOp.name = "can_execute"
  /\ cbPrev.state = "OPEN"
  /\ cbOp.at - cbPrev.last_failure_time = cbPrev.recovery_timeout
  /\ cbOp.ret = TRUE
  /\ cb.state = "HALF_OPEN"

\* C11: in HALF_OPEN, the record_success call that brings the number of
\* record_success calls of the episode to success_threshold leaves the breaker
\* CLOSED with failure_count, success_count and half_open_calls all 0; while
\* fewer have been made the breaker is still HALF_OPEN and success_count is
\* their number.
C11_ClosesAtThreshold ==
  /\ cb.state = "HALF_OPEN" =>
        cbEpisode.succ < cb.success_threshold /\ cb.success_count = cbEpisode.succ
  /\ (cbOp.name = "record_success" /\ cbPrev.state = "HALF_OPEN") =>
        IF cbEpisode.succ = cb.success_threshold
        THEN /\ cb.state = "CLOSED"
             /\ cb.failure_count = 0 /\ cb.success_count = 0 /\ cb.half_open_calls = 0
        ELSE cbEpisode.succ < cb.success_threshold /\ cb.state = "HALF_OPEN"

\* C11 witness: the second of two record_success calls closed a HALF_OPEN breaker
\* that still carried failures and admitted probes.
C11_Witness ==
  /\ cbOp.name = "record_success"
  /\ cbPrev.state = "HALF_OPEN"
  /\ cbPrev.success_count = 1
  /\ cbPrev.failure_count > 0
  /\ cbPrev.half_open_calls > 0
  /\ cbEpisode.succ = 2
  /\ cb.state = "CLOSED"

\* C12: a record_failure call on a HALF_OPEN breaker leaves it OPEN with
\* half_open_calls = 0, success_count = 0 and last_failure_time = the time of the
\* call, whatever success_count was; and a can_execute call on an OPEN breaker
\* that re-opened at time r returns true only at a time >= r + recovery_timeout.
C12_FailureReopens ==
  /\ (cbOp.name = "record_failure" /\ cbPrev.state = "HALF_OPEN") =>
        /\ cb.state = "OPEN"
        /\ cb.half_open_calls = 0 /\ cb.success_count = 0
        /\ cb.last_failure_time = cbOp.at
  /\ (cbOp.name = "can_execute" /\ cbPrev.state = "OPEN" /\ cbOp.ret
         /\ cbEpisode.reopened # NoTime) =>
        cbOp.at - cbEpisode.reopened >= cb.recovery_timeout

\* C12 witness: a HALF_OPEN breaker that had recorded a success and admitted a
\* probe was re-opened by one record_failure call made after time 0.
C12_Witness ==
  /\ cbOp.name = "record_failure" /\ cbPrev.state = "HALF_OPEN"
  /\ cbPrev.success_count > 0 /\ cbPrev.half_open_calls > 0
  /\ cb.state = "OPEN" /\ cb.last_failure_time > cbPrev.last_failure_time

\* C13 as stated: in a HALF_OPEN episode can_execute returns true at most
\* half_open_max_calls times counting the call that made the OPEN->HALF_OPEN
\* transition, every such call increments half_open_calls, and half_open_calls
\* never exceeds half_open_max_calls.
C13_ProbeBudget ==
  /\ cb.half_open_calls <= cb.half_open_max_calls
  /\ cb.state = "HALF_OPEN" => cbEpisode.admitted <= cb.half_open_max_calls
  /\ (cbOp.name = "can_execute" /\ cbOp.ret /\ cb.state = "HALF_OPEN") =>
        cb.half_open_calls = cbPrev.half_open_calls + 1

\* C13 amended: the call that makes the OPEN->HALF_OPEN transition returns true
\* and sets half_open_calls to 0 without counting itself; after it can_execute
\* returns true at most half_open_max_calls more times in the episode, each of
\* those calls increments half_open_calls, a call made with half_open_calls at
\* half_open_max_calls returns false and changes nothing, and half_open_calls
\* never exceeds half_open_max_calls.
C13_ProbeBudgetAfterEntry ==
  /\ cb.half_open_calls <= cb.half_open_max_calls
  /\ cb.state = "HALF_OPEN" => cbEpisode.admitted = 1 + cb.half_open_calls
  /\ (cbOp.name = "can_execute" /\ cbPrev.state = "OPEN" /\ cbOp.ret) =>
        cb.state = "HALF_OPEN" /\ cb.half_open_calls = 0
  /\ (cbOp.name = "can_execute" /\ cbPrev.state = "HALF_OPEN") =>
        IF cbPrev.half_open_calls < cbPrev.half_open_max_calls
        THEN cbOp.ret /\ cb.half_open_calls = cbPrev.half_open_calls + 1
        ELSE ~cbOp.ret /\ cb = cbPrev

\* C13 witness: a HALF_OPEN breaker that has admitted 1 + half_open_max_calls
\* calls refuses the next one.
C13_Witness ==
  /\ cbOp.name = "can_execute" /\ cbPrev.state = "HALF_OPEN" /\ ~cbOp.ret
  /\ cb.half_open_max_calls = MaxParam
  /\ cbEpisode.admitted = 1 + cb.half_open_max_calls

\* C39: a record_failure or record_success call that arrives while the breaker
\* is OPEN leaves it OPEN and does not postpone recovery: at every time from the
\* call on, can_execute answers as it would have answered had the call not been
\* made, so the breaker admits a probe recovery_timeout after it opened.
C39_OpenNotPostponed ==
  (cbOp.name \in {"record_failure", "record_success"} /\ cbPrev.state = "OPEN") =>
     /\ cb.state = "OPEN"
     /\ \A t \in cbOp.at..(MaxTime + MaxParam) :
          can_execute(cb, t).ret = can_execute(cbPrev, t).ret

\* --------------------------------------------------- claims on the Orchestrator
PlanTasks(e) == SeqToSet(exec[e].plan.tasks)

RECURSIVE RunnableFrom(_, _)
\* the tasks of plan p whose dependencies can all be satisfied, grown from S
RunnableFrom(p, S) ==
  LET S1 == {t \in SeqToSet(p.tasks) : Deps(p, t) \subseteq S}
  IN IF S1 = S THEN S ELSE RunnableFrom(p, S1)

\* the tasks of p that sit on a dependency cycle or behind a dependency that is
\* no task of p
Stuck(p) == SeqToSet(p.tasks) \ RunnableFrom(p, {})

RECURSIVE Ancestors(_, _, _)
\* the tasks t depends on, directly or transitively (n bounds the depth)
Ancestors(p, t, n) ==
  IF n = 0 THEN {}
  ELSE Deps(p, t) \cup UNION {Ancestors(p, d, n - 1) : d \in Deps(p, t)}

InFlight == {et \in Execs \X TaskIds : tk[et[1]][et[2]].pc = "calling"}

AllTerminal(e) ==
  /\ exec[e].status = "returned"
  /\ DOMAIN exec[e].results = PlanTasks(e)
  /\ exec[e].completed \cup exec[e].failed = PlanTasks(e)
  /\ \A t \in PlanTasks(e) : t \in exec[e].completed <=> exec[e].results[t].success

\* C1: an execute() call on a plan whose dependencies name only its own tasks and
\* form a DAG terminates, with an ExecutionResult for every task and every task id
\* in completed or failed (every agent call ends: FairSpec).
C1_Terminates ==
  (exec[1].status = "running" /\ Stuck(exec[1].plan) = {}) ~> AllTerminal(1)

\* C1 witness: the linear plan A -> B -> C has returned with its three results,
\* some task completed and some failed.
C1_Witness ==
  /\ exec[1].plan = PlanLinear
  /\ AllTerminal(1)
  /\ exec[1].completed # {} /\ exec[1].failed # {}

\* C2: a task's coroutine exists only when every task it depends on has an
\* ExecutionResult in the result map.
C2_DepsFirst ==
  \A e \in Execs, t \in TaskIds :
    tk[e][t].pc # "none" => Deps(exec[e].plan, t) \subseteq DOMAIN exec[e].results

\* C2 witness: in the linear plan, C is at an agent with A's and B's results there.
C2_Witness ==
  /\ exec[1].plan = PlanLinear
  /\ tk[1]["C"].pc = "calling"
  /\ {"A", "B"} \subseteq DOMAIN exec[1].results

\* C3 (as claimed): a task with a failed task among the tasks it depends on,
\* directly or transitively, is never dispatched.
C3_FailurePrunes ==
  \A e \in Execs, t \in TaskIds :
    (\E d \in Ancestors(exec[e].plan, t, Cardinality(TaskIds)) :
        d \in DOMAIN exec[e].results /\ ~exec[e].results[d].success)
      => tk[e][t].pc = "none" /\ hist[e][t].invoked = {}

\* C4: when no task is ready while tasks remain, every remaining task gets a
\* failure result "Dependency deadlock" without a coroutine or an agent call, and
\* execute returns in that same step; no other task gets that error, and execute
\* never waits on an empty batch.
C4_DeadlockFails ==
  \A e \in Execs :
    /\ \A t \in DOMAIN exec[e].results :
         exec[e].results[t].error = "Dependency deadlock" =>
           /\ t \in Stuck(exec[e].plan)
           /\ ~exec[e].results[t].success /\ t \in exec[e].failed
           /\ tk[e][t].pc = "none" /\ hist[e][t].invoked = {}
           /\ exec[e].status = "returned"
    /\ exec[e].status = "returned" =>
         \A t \in Stuck(exec[e].plan) :
           t \in DOMAIN exec[e].results
             /\ exec[e].results[t].error = "Dependency deadlock"
    /\ exec[e].status = "running" => exec[e].tasks_to_run # <<>>

\* C4 witness: A ran, then B (behind a missing id) and C (behind B) deadlocked.
C4_Witness ==
  /\ exec[1].plan = PlanDangling
  /\ exec[1].status = "returned"
  /\ hist[1]["A"].invoked # {}
  /\ exec[1].results["B"].error = "Dependency deadlock"
  /\ exec[1].results["C"].error = "Dependency deadlock"

\* C5: every coroutine not yet joined belongs to the current round's batch, and
\* whenever a task was dispatched in a later round than another, that other task
\* was joined and has its result.
C5_JoinAll ==
  \A e \in Execs, t \in TaskIds :
    /\ tk[e][t].pc \in {"created", "waiting", "calling", "done"} =>
         /\ hist[e][t].round = exec[e].round
         /\ t \in SeqToSet(exec[e].tasks_to_run)
    /\ \A u \in TaskIds :
         (hist[e][u].round > 0 /\ hist[e][t].round > hist[e][u].round) =>
            tk[e][u].pc = "joined" /\ u \in DOMAIN exec[e].results

\* C5 witness: A is done, so C has become ready, but B of the same round is still
\* at its agent and C has not been started.
C5_Witness ==
  /\ exec[1].plan = PlanFork
  /\ tk[1]["A"].pc = "done" /\ tk[1]["A"].res.success
  /\ tk[1]["B"].pc = "calling"
  /\ tk[1]["C"].pc = "none"

\* C6: the agent calls in flight, over all execute() calls of the Orchestrator,
\* never exceed max_concurrent_tasks.
C6_BoundedInFlight ==
  /\ Cardinality(InFlight) <= max_concurrent_tasks
  /\ semaphore >= 0

\* C6 witness: every slot is taken by a call in flight, calls of both execute()
\* calls among them or waiting behind them.
C6_Witness ==
  /\ Cardinality(InFlight) = max_concurrent_tasks
  /\ \E t \in TaskIds : tk[2][t].pc = "waiting"
  /\ \E t \in TaskIds : tk[1][t].pc = "calling"

\* C7: execute never raises for a task-level failure: agents that raise or time
\* out, no matching agent, all candidates failing, or an exception escaping
\* _execute_task all end as failure results in the map execute returns.
C7_FailuresCaptured ==
  \A e \in Execs :
    /\ exec[e].status # "raised"
    /\ \A t \in DOMAIN exec[e].results : ~exec[e].results[t].exception

\* C7 witness: execute returned a map holding the failure made of a KeyError that
\* escaped _execute_task and an all-agents-failed result of invoked agents.
C7_Witness ==
  /\ exec[1].status = "returned"
  /\ \E t \in DOMAIN exec[1].results : exec[1].results[t].error = "KeyError"
  /\ \E t \in DOMAIN exec[1].results :
       /\ exec[1].results[t].error = "All agents failed to execute task"
       /\ hist[1][t].invoked # {}

\* C8: an agent whose breaker is OPEN with the recovery timeout not elapsed when
\* a task's candidates are chosen is no candidate, is never invoked for the task
\* and gets no record_success / record_failure for it; a capable agent with a
\* CLOSED breaker is a candidate, and the task goes to an agent.
C8_OpenBypassed ==
  \A e \in Execs, t \in TaskIds :
    LET h == hist[e][t]
        cands == SeqToSet(tk[e][t].candidates)
    IN /\ h.blocked \cap (cands \cup h.invoked \cup h.recorded) = {}
       /\ h.closed \subseteq cands
       /\ h.recorded \subseteq h.invoked /\ h.invoked \subseteq cands
       /\ (h.closed # {} /\ tk[e][t].pc \in {"calling", "done", "joined"})
            => h.invoked # {}

\* C8 witness: a1 and a2 both have capability x, a1's breaker was OPEN when task A
\* was filtered, and a2 served it successfully.
C8_Witness ==
  /\ hist[1]["A"].blocked = {"a1"}
  /\ hist[1]["A"].invoked = {"a2"}
  /\ hist[1]["A"].recorded = {"a2"}
  /\ "A" \in exec[1].completed
\* ------------------------------------- claims on find_agents_for_task (SpecFind)
\* the registered agents a find_agents_for_task(req) call must return when the
\* breakers are brk at the time of the call
Eligible(req, brk) ==
  {a \in DOMAIN agent_capabilities :
     /\ req \subseteq agent_capabilities[a]
     /\ agent_health[a]
     /\ (enable_circuit_breaker /\ a \in DOMAIN brk) => can_execute(brk[a], now).ret}

\* two direct calls in a row with the same required capabilities and no clock
\* advance, register or unregister between them
Repeated ==
  /\ last_find # NoFind /\ prev_find # NoFind
  /\ prev_find.req = last_find.req
  /\ prev_find.steps = last_find.steps

\* C14 as stated: of two find_agents_for_task calls in a row with the same
\* required capabilities and nothing in between, the second returns the same
\* ordered list as the first and neither changes any breaker.
C14_FindIsPure ==
  Repeated =>
    /\ last_find.ret = prev_find.ret
    /\ last_find.after = last_find.before
    /\ prev_find.after = prev_find.before

C16_BoundedMembership ==
  /\ [](Cardinality(DOMAIN members) <= config.max_agents)
  /\ [][\A a \in SwarmAgents :
          (Join(a) /\ Cardinality(DOMAIN members) >= config.max_agents) =>
             (~sw_op'.ret /\ UNCHANGED <<members, member_order>>)]_vars

\* C16 witness: the swarm is full with max_agents = 2, one member's join is still
\* suspended in its on_join callback, and a third agent's join has just returned
\* false.
C16_Witness ==
  /\ config.max_agents = 2
  /\ Cardinality(DOMAIN members) = 2
  /\ \E c \in pending : c.call = "join" /\ c.agent \in DOMAIN members
  /\ sw_op.name = "join" /\ ~sw_op.ret /\ sw_op.agent \notin DOMAIN members

\* the yes votes among the votes that vote() calls accepted on proposal pid
YesCast(pid) == Cardinality({i \in 1..Len(vote_log[pid]) : vote_log[pid][i].vote})

\* C17: with consensus_type majority, the propose call reports consensus exactly
\* when twice the number of yes votes accepted during its window exceeds the
\* member count at the time of the tally.
C17_StrictMajority ==
  [][\A pid \in ProposalIds :
       (ProposeReturns(pid) /\ config.consensus_type = "majority") =>
          (proposal_results'[pid].consensus <=>
             2 * YesCast(pid) > Cardinality(DOMAIN members))]_vars

\* C17 witness: majority, 3 members, 2 yes votes, consensus reported.
C17_Witness ==
  /\ config.consensus_type = "majority"
  /\ 1 \in DOMAIN proposal_results
  /\ proposal_results[1].total_members = 3
  /\ proposal_results[1].yes_votes = 2
  /\ proposal_results[1].consensus
  /\ sw_op.name = "propose_returns"

\* C18: with allocation_strategy round_robin, when every distribute_task call made
\* so far saw the same non-empty membership, the k-th call (k from 0) returned the
\* member at position k mod n of the join order.
C18_RoundRobin ==
  (config.allocation_strategy = "round_robin" /\ dist_log.stable /\ dist_log.order # <<>>) =>
     /\ Len(dist_log.rets) = dist_log.calls
     /\ \A k \in 0..(dist_log.calls - 1) :
          dist_log.rets[k + 1] = dist_log.order[(k % Len(dist_log.order)) + 1]

\* C18 witness: over members [m0, m1, m2] four calls returned m0, m1, m2, m0.
C18_Witness ==
  /\ config.allocation_strategy = "round_robin"
  /\ dist_log.stable
  /\ dist_log.order = <<"m0", "m1", "m2">>
  /\ dist_log.rets = <<"m0", "m1", "m2", "m0">>

\* C19: a vote call on a proposal id that is not open, or by a voter who is not a
\* member, returns false and changes nothing; any other vote call returns true and
\* appends exactly one vote, the one cast, to that proposal's list and changes
\* nothing else.
C19_VoteGate ==
  [][\A pid \in ProposalIds \cup {UnknownProposal}, a \in SwarmAgents, v \in BOOLEAN :
       Vote(pid, a, v) =>
         IF pid \notin DOMAIN active_proposals \/ a \notin DOMAIN members
         THEN /\ ~sw_op'.ret
              /\ UNCHANGED <<votes, active_proposals, members, member_order,
                             proposal_results, allocated_tasks, round_robin_index>>
         ELSE /\ sw_op'.ret
              /\ votes' = [votes EXCEPT ![pid] = votes[pid] \o <<[voter |-> a, vote |-> v]>>]
              /\ UNCHANGED <<active_proposals, members, member_order,
                             proposal_results, allocated_tasks, round_robin_index>>]_vars

\* C19 witness: a member's vote on the proposal that was tallied and discarded
\* has just been refused, after two votes had been accepted during the window.
C19_Witness ==
  /\ sw_op.name = "vote" /\ ~sw_op.ret
  /\ sw_op.proposal \in DOMAIN proposal_results
  /\ sw_op.agent \in DOMAIN members
  /\ Len(vote_log[sw_op.proposal]) = 2

\* C20: a propose call returns only when its full timeout has elapsed since it
\* opened the proposal; its result counts every vote accepted during the window;
\* when it returns the proposal and its votes are gone; and every later vote on
\* that id is refused.
C20_FullWindow ==
  /\ [][\A pid \in ProposalIds :
          ProposeReturns(pid) =>
            /\ now - active_proposals[pid].started_at >= active_proposals[pid].sleep
            /\ proposal_results'[pid].yes_votes = YesCast(pid)
            /\ proposal_results'[pid].no_votes = Len(vote_log[pid]) - YesCast(pid)
            /\ pid \notin DOMAIN active_proposals'
            /\ pid \notin DOMAIN votes']_vars
  /\ [][\A pid \in DOMAIN proposal_results, a \in SwarmAgents, v \in BOOLEAN :
          Vote(pid, a, v) => ~sw_op'.ret /\ UNCHANGED <<votes, vote_log>>]_vars
  /\ [](\A pid \in DOMAIN active_proposals :
          pid \in DOMAIN votes /\ votes[pid] = vote_log[pid])

\* C20 witness: with 3 members and a majority of yes votes already cast, the
\* proposal is still open because its window has not run out.
C20_Witness ==
  /\ config.consensus_type = "majority"
  /\ 1 \in DOMAIN active_proposals
  /\ Cardinality(DOMAIN members) = 3
  /\ 2 * yes_votes(votes[1]) > Cardinality(DOMAIN members)
  /\ now - active_proposals[1].started_at < active_proposals[1].sleep
  /\ now > active_proposals[1].started_at
\* C31: a distribute_task call that returns an agent adds 1 to that member's
\* task_count, leaves every other member's task_count as it was and records
\* task id -> agent in the allocation map, every other allocation kept; a call
\* that returns None changes no member entry, no allocation and not the
\* round-robin counter.  The membership itself is never changed by the call.
C31_DistributeFrame ==
  [][\A t \in SwarmTasks :
       DistributeTask(t) =>
         LET r == sw_op'.agent IN
         /\ DOMAIN members' = DOMAIN members
         /\ member_order' = member_order
         /\ IF r # NoAgent
            THEN /\ r \in DOMAIN members
                 /\ members'[r].task_count = members[r].task_count + 1
                 /\ \A m \in DOMAIN members \ {r} : members'[m] = members[m]
                 /\ members'[r].capabilities = members[r].capabilities
                 /\ DOMAIN allocated_tasks' = DOMAIN allocated_tasks \cup {t}
                 /\ allocated_tasks'[t] = r
                 /\ \A u \in DOMAIN allocated_tasks \ {t} :
                      allocated_tasks'[u] = allocated_tasks[u]
            ELSE /\ members' = members
                 /\ allocated_tasks' = allocated_tasks
                 /\ round_robin_index' = round_robin_index]_vars

\* C31 witness: with members present and a task already allocated, a
\* distribute_task call has just returned None.
C31_Witness ==
  /\ sw_op.name = "distribute_task" /\ sw_op.agent = NoAgent
  /\ Len(member_order) >= 2
  /\ allocated_tasks # <<>>
  /\ \E m \in DOMAIN members : members[m].task_count >= 1

\* C32: under the capability strategy distribute_task returns the first member,
\* in the order of the membership map, whose capabilities contain every
\* capability the task requires, and None when no member's capabilities do.
C32_FirstCapable ==
  [][\A t \in SwarmTasks :
       (config.allocation_strategy = "capability" /\ DistributeTask(t)) =>
         LET able(i) == TaskCaps(t) \subseteq MemberCaps(member_order[i])
             n == Len(member_order)
         IN IF \E i \in 1..n : able(i)
            THEN \E i \in 1..n : /\ able(i)
                                 /\ \A j \in 1..(i - 1) : ~able(j)
                                 /\ sw_op'.agent = member_order[i]
            ELSE sw_op'.agent = NoAgent]_vars

\* C32 witness: under the capability strategy a task has just gone to m1
\* although m0 joined before it and m2 fits no task.
C32_Witness ==
  /\ config.allocation_strategy = "capability"
  /\ sw_op.name = "distribute_task" /\ sw_op.agent = "m1"
  /\ Len(member_order) = 3 /\ member_order[1] = "m0"

\* the current members that cast at least one accepted yes vote on proposal pid
YesMembers(pid) ==
  {m \in DOMAIN members :
     \E i \in 1..Len(vote_log[pid]) : vote_log[pid][i].voter = m /\ vote_log[pid][i].vote}

\* C36: under majority, a propose call reports consensus only if more than half
\* of the agents that are members at the tally each cast a yes vote: a repeated
\* yes vote of one agent, or the yes vote of an agent that has left since, adds
\* nothing.
C36_DistinctCurrentVoters ==
  [][\A pid \in ProposalIds :
       (config.consensus_type = "majority" /\ ProposeReturns(pid)
          /\ proposal_results'[pid].consensus) =>
         2 * Cardinality(YesMembers(pid)) > Cardinality(DOMAIN members)]_vars

\* C37: whatever the consensus_type, a propose call that reports consensus had
\* at least one yes vote accepted during its window.
C37_NoConsensusWithoutYes ==
  [][\A pid \in ProposalIds :
       (ProposeReturns(pid) /\ proposal_results'[pid].consensus) =>
         YesCast(pid) >= 1]_vars

\* C38: every agent recorded in the task -> agent allocation map is a current
\* member, and each member's task_count is the number of tasks allocated to it.
C38_AllocationsMatchMembers ==
  /\ \A t \in DOMAIN allocated_tasks : allocated_tasks[t] \in DOMAIN members
  /\ \A m \in DOMAIN members :
       members[m].task_count =
         Cardinality({t \in DOMAIN allocated_tasks : allocated_tasks[t] = m})

\* ------------------------------------------------ claims on cancel_task (SpecCancel)
\* has the task a result in the execute() call's results
HasResult(e, t) == t \in DOMAIN exec[e].results

\* C21: a task's status only moves forward: no Orchestrator operation changes the
\* status of a task that has reached a terminal status or that already has an
\* ExecutionResult from the current execute call (the only other writer of the
\* status is the agent the task was handed to)
C21_StatusForward ==
  [][\A t \in TaskIds :
       (task_status[1][t] \in Terminal \/ HasResult(1, t)) =>
         \/ task_status'[1][t] = task_status[1][t]
         \/ \E s \in {"COMPLETED", "FAILED"} : AgentMarks(1, t, s)]_vars

C35_ActiveOnlyInFlight ==
  /\ [](\A t \in TaskIds : <<1, t>> \in active_tasks => tk[1][t].pc = "calling")
  /\ [](exec[1].status = "returned" => active_tasks = {})
  /\ [][\A t \in PlanTasks(1) :
          (exec[1].status = "returned" /\ CancelTask(1, t)) => ~cancel_op'.ret]_vars

\* ------------------------------------- claims on execute and _execute_task (Spec)
\* C22: within one execute call every task is dispatched at most once and gets at
\* most one ExecutionResult: a task id in the completed or failed set is never in
\* a batch again, and a stored result is never overwritten
C22_DispatchedOnce ==
  /\ [](\A e \in Execs :
          SeqToSet(exec[e].tasks_to_run) \cap (exec[e].completed \cup exec[e].failed) = {})
  /\ [][\A e \in Execs, t \in TaskIds :
          /\ hist'[e][t].round # hist[e][t].round =>
                hist[e][t].round = 0 /\ ~HasResult(e, t)
          /\ HasResult(e, t) =>
                t \in DOMAIN exec'[e].results /\ exec'[e].results[t] = exec[e].results[t]]_vars

\* a task dispatched in round 1 has its result while a later round is under way
C22_Witness ==
  \E e \in Execs, t \in TaskIds :
    /\ exec[e].status = "running" /\ exec[e].round >= 2
    /\ hist[e][t].round = 1 /\ HasResult(e, t)
    /\ \E u \in TaskIds : tk[e][u].pc = "calling" /\ hist[e][u].round = 2

\* the agent coroutine <<e, t>> is calling, and the breaker it calls record_* on
Called(e, t) == tk[e][t].agent
HeldBreaker(e, t) == circuit_breakers[Called(e, t)]

\* C25: each agent invocation is followed by exactly one breaker record on that
\* agent: record_success if and only if the invocation yields a success
\* ExecutionResult for the task, record_failure if and only if it raised or timed
\* out, and then dispatch goes on with the next candidate
C25_RecordMatchesResult ==
  [][\A e \in Execs, t \in TaskIds :
       \A o \in {"completed", "not_completed", "raise", "timeout"} :
         (AgentReturns(e, t, o) /\ held_is_registered(circuit_breakers, tk[e][t])) =>
           /\ circuit_breakers'[Called(e, t)] = record_success(HeldBreaker(e, t))
                 <=> (tk'[e][t].pc = "done" /\ tk'[e][t].res.success)
           /\ circuit_breakers'[Called(e, t)] = record_failure(HeldBreaker(e, t), now)
                 <=> o \in {"raise", "timeout"}
           /\ o \in {"raise", "timeout"} => tk'[e][t].idx > tk[e][t].idx]_vars

\* coroutine <<e, t>> starts an agent call in this step
StartsCall(e, t) ==
  /\ tk'[e][t].pc = "calling"
  /\ tk[e][t].pc # "calling" \/ tk'[e][t].idx # tk[e][t].idx

\* cb.can_execute() of line 338 returns false for agent a
Refused(brk, a) == a \in DOMAIN brk /\ ~can_execute(brk[a], now).ret

\* C26: for any single task the candidates are tried one at a time in list order:
\* the call in flight is the one of the current candidate, a later candidate is
\* invoked only after every earlier one was skipped or failed, and none is
\* invoked after one has returned
C26_OneAtATime ==
  /\ [](\A e \in Execs, t \in TaskIds :
          LET c == tk[e][t] IN
          /\ c.pc = "calling" =>
                c.idx \in 1..Len(c.candidates) /\ c.agent = c.candidates[c.idx]
          /\ \A j \in 1..Len(c.candidates) :
                c.candidates[j] \in hist[e][t].invoked => j <= c.idx)
  /\ [][\A e \in Execs, t \in TaskIds :
          LET c == tk[e][t]
              from == IF c.pc = "calling" THEN c.idx ELSE 0
              brk == IF c.pc = "calling" THEN circuit_breakers
                     ELSE find_agents_for_task(RequiredCaps(t), circuit_breakers).breakers
          IN /\ StartsCall(e, t) =>
                  /\ tk'[e][t].idx > from
                  /\ c.pc = "calling" => \E o \in {"raise", "timeout"} : AgentReturns(e, t, o)
                  /\ \A j \in (from + 1)..(tk'[e][t].idx - 1) :
                        Refused(brk, tk'[e][t].candidates[j])
             /\ (\E o \in {"completed", "not_completed"} : AgentReturns(e, t, o)) =>
                  tk'[e][t].pc = "done" /\ hist'[e][t].invoked = hist[e][t].invoked
             /\ c.pc \in {"done", "joined"} =>
                  tk'[e][t].pc # "calling" /\ hist'[e][t].invoked = hist[e][t].invoked]_vars

\* the second candidate is being called after the first one was called and failed
C26_Witness ==
  \E t \in TaskIds :
    /\ tk[1][t].pc = "calling" /\ tk[1][t].idx = 2
    /\ tk[1][t].candidates[1] \in hist[1][t].invoked

\* C27: every agent invocation made by _execute_task is bounded by
\* default_timeout, so execute terminates even when a registered agent hangs,
\* whichever way the agent is invoked
C27_HangingCallEnds ==
  (exec[1].status = "running") ~> (exec[1].status = "returned")

\* coroutine <<e, t>> has left _execute_task
Left(e, t) == tk[e][t].pc \in {"done", "joined"}

\* C28: with a non-empty candidate list and no candidate producing a success,
\* _execute_task returns the all-agents-failed failure with retry_count equal to
\* the number of candidates; with an empty list it returns the no-agent failure
\* without invoking an agent or recording on a breaker
C28_FailureResults ==
  \A e \in Execs, t \in TaskIds :
    Left(e, t) =>
      LET c == tk[e][t] IN
      /\ (c.candidates # <<>> /\ ~c.res.success) =>
            /\ ~c.res.exception
            /\ c.res.error = "All agents failed to execute task"
            /\ c.res.retry_count = Len(c.candidates)
      /\ c.candidates = <<>> =>
            /\ c.res = ExecutionResult(FALSE, "No agent found for capabilities", 0)
            /\ hist[e][t].invoked = {} /\ hist[e][t].recorded = {}

\* agent a's breaker is HALF_OPEN with its probe budget spent and no call to a is
\* in flight: can_execute returns false and changes nothing, and record_success
\* and record_failure, the only operations that move a HALF_OPEN breaker, run
\* only when a call admitted to a ends
StuckHalfOpen(a) ==
  /\ a \in DOMAIN circuit_breakers
  /\ circuit_breakers[a].state = "HALF_OPEN"
  /\ ~can_execute(circuit_breakers[a], now).ret
  /\ can_execute(circuit_breakers[a], now).cb = circuit_breakers[a]
  /\ \A e \in Execs, t \in TaskIds : ~(tk[e][t].pc = "calling" /\ Called(e, t) = a)

\* C33: under the Orchestrator's use of breakers a HALF_OPEN breaker goes on to
\* CLOSED or OPEN: it is never HALF_OPEN with can_execute false from then on and
\* no admitted call to its agent outstanding.
C33_HalfOpenResolves ==
  \A a \in Agents : ~StuckHalfOpen(a)

\* the call in flight of coroutine <<e, t>> was admitted before its agent's
\* breaker opened, and that breaker is HALF_OPEN now: the call was let through no
\* later than the failure the breaker last recorded, and every call of the
\* current half-open episode at least recovery_timeout after that failure
LateCall(e, t) ==
  /\ tk[e][t].pc = "calling"
  /\ held_is_registered(circuit_breakers, tk[e][t])
  /\ HeldBreaker(e, t).state = "HALF_OPEN"
  /\ hist[e][t].admitted <= HeldBreaker(e, t).last_failure_time

\* C34: when concurrent tasks share an agent, only successes of calls admitted
\* by can_execute during the current half-open episode count toward closing the
\* breaker: the late success of a call admitted before the breaker opened
\* leaves it HALF_OPEN with success_count as it was.
C34_LateSuccessNotCounted ==
  [][\A e \in Execs, t \in TaskIds :
       \A o \in {"completed", "not_completed"} :
         (LateCall(e, t) /\ AgentReturns(e, t, o)) =>
            /\ circuit_breakers'[Called(e, t)].state = "HALF_OPEN"
            /\ circuit_breakers'[Called(e, t)].success_count =
                 HeldBreaker(e, t).success_count]_vars

\* ----------------------------------------------- claims on execute (FairSpec)
\* task t is ready in the round under way but was left out of its batch
BeyondCap(t) ==
  /\ exec[1].status = "running"
  /\ t \in SeqToSet(ready(exec[1]))
  /\ t \notin SeqToSet(exec[1].tasks_to_run)

NoOtherKill(a) ==
  /\ ~global_kill
  /\ metadata_of(agent_metadata, a).namespace \notin killed_namespaces
  /\ metadata_of(agent_metadata, a).swarm \notin killed_swarms

\* C23: for an agent id with no global, namespace or swarm kill in force:
\* before any activation is_killed is false and check_or_raise does not raise;
\* after activate(AGENT, id) is_killed is true and check_or_raise raises
\* KillSwitchActivated; a following deactivate(AGENT, id) returns true and
\* is_killed is false again
C23_KillAndRevive ==
  /\ [](events = <<>> =>
          \A a \in KsAgents : ~is_killed(a) /\ check_or_raise(a) = NoValue)
  /\ [][\A a \in KsAgents :
          /\ Activate("AGENT", a) =>
                is_killed(a)' /\ check_or_raise(a)' = "KillSwitchActivated"
          /\ (Deactivate("AGENT", a) /\ a \in agent_kills) =>
                /\ deactivate_returns("AGENT", a)
                /\ NoOtherKill(a)' => (~is_killed(a)' /\ check_or_raise(a)' = NoValue)]_vars

\* a monitored agent was killed by activate(AGENT, id), then revived by
\* deactivate(AGENT, id), and is not killed
C23_Witness ==
  \E a \in KsAgents :
    /\ a \in monitored
    /\ \E i \in 1..Len(events) : events[i].level = "AGENT" /\ events[i].target = a
    /\ a \notin agent_kills
    /\ NoOtherKill(a) /\ ~is_killed(a)

\* C40: when the only activations ever made were GLOBAL ones, so that no agent
\* was killed individually or through its namespace or swarm, deactivate(GLOBAL)
\* on an active global kill leaves is_killed false for every agent.
C40_GlobalKillLifts ==
  [][(/\ global_kill
      /\ events # <<>>
      /\ \A i \in 1..Len(events) : events[i].level = "GLOBAL"
      /\ Deactivate("GLOBAL", Everyone)) =>
        \A a \in KsAgents : ~is_killed(a)']_vars

\* -------------------------------------------- claims on the AuditLogger (SpecAudit)
\* C24: after any sequence of log() calls with the in-memory storage, each stored
\* event's previous_hash is the event_hash of the event logged just before it
\* (None for the first), each event_hash is compute_hash of the event, and
\* verify_chain returns (True, None)
C24_ChainIntact ==
  /\ \A i \in 1..Len(storage) :
        /\ storage[i].previous_hash =
             (IF i = 1 THEN NoHash ELSE storage[i - 1].event_hash)
        /\ storage[i].event_hash = compute_hash(storage[i])
  /\ verify_chain(storage) = [valid |-> TRUE, broken |-> NoEvent]

\* three events logged, two of them within the same clock reading
C24_Witness ==
  /\ Len(storage) = 3 /\ event_count = 3
  /\ storage[1].timestamp = storage[2].timestamp
  /\ storage[2].timestamp < storage[3].timestamp
  /\ last_hash = storage[3].event_hash

====
